---- MODULE Spec2Model ----
(***************************************************************************)
(* Elvish layout widgets: the generated-stylesheet cache shared by the     *)
(* layout custom elements, the sticky widget's stuck detection, the reel's *)
(* overflow detection, the i-thir long-press machine (per-instance and      *)
(* delegated) and the i-gil prefetch scheduler.                            *)
(*                                                                         *)
(* Text is a sequence of one-character strings, so that the fingerprint's  *)
(* character stripping and parseInt are computed character by character.   *)
(* Literal fragments of a CSS template are kept as single chunks.          *)
(***************************************************************************)
EXTENDS Integers, Sequences, FiniteSets, Bags, TLC

VARIABLES
  styles,          \* document.head: the bag of <style> elements [id, css]
  hathAttr,        \* i-hath: element -> its attributes space / recursive / split-after
  hathConnected,   \* i-hath: element -> attached to the document
  hathDataI,       \* i-hath: element -> dataset.i
  hathStyle,       \* i-hath: element -> inline --hath-space
  gwisAttr,        \* i-gwistindor: its attributes threshold / space / limit
  gwisConnected,   \* i-gwistindor: attached to the document
  gwisDataI,       \* i-gwistindor: dataset.i
  gwisStyle,       \* i-gwistindor: inline --gwistindor-threshold, --gwistindor-space
  renders,         \* number of lifecycle callbacks delivered so far (bounded)
  himAttr,         \* i-him: its attributes to / offset / sentinel
  himConnected,    \* i-him: attached to the document
  himDataI,        \* i-him: dataset.i
  himStyle,        \* i-him: inline --him-offset
  himStuck,        \* i-him: dataset.stuck ("none" while never written)
  himSentinel,     \* i-him: this.sentinelEl, this.observer and what they refer to:
                   \*   [sentinelEl, observer: 0 for null or an identity,
                   \*    dom: the sentinel nodes inserted next to the element,
                   \*    live: the observers that observe a target,
                   \*    queue: the intersection entries queued for delivery]
  himFrames,       \* i-him: requestAnimationFrame callbacks not yet run
  himCalls,        \* i-him: lifecycle callbacks delivered so far (bounded)
  scrolls,         \* environment: scroll steps so far (bounded)
  sentinelVisible, \* environment: the sentinel's place intersects the viewport
  hasIO,           \* environment: 'IntersectionObserver' in window
  ioDrops,         \* environment: disconnect() discards the observer's undelivered entries
  stuckLog,        \* the stuck-change events dispatched so far (detail.stuck)
  himChanged,      \* an attribute or the attachment really changed since the
                   \* widget last settled (no frame callback pending)
  himDetached,     \* i-him: disconnectedCallback has returned and the element has
                   \* not been attached again
  thir,            \* one i-thir element, both long-press implementations and the
                   \* timers they have started (fields: see InitThir)
  gil,             \* one i-gil link widget, its trigger registrations and its
                   \* prefetch runs (fields: see InitGil)
  reel,            \* one i-glan-tholl reel, its geometry and its observers
                   \* (fields: see InitReel)
  thann,           \* one i-thann icon widget: its attributes space / label and
                   \* what render() derives from them (fields: see InitStyle)
  trans            \* the view-transition helper: the root element's inline
                   \* --transition-duration / --transition-ease and the
                   \* transition() calls not yet finished (fields: see InitTrans)

hathVars == <<hathAttr, hathConnected, hathDataI, hathStyle>>
gwisVars == <<gwisAttr, gwisConnected, gwisDataI, gwisStyle>>

himVars == <<himAttr, himConnected, himDataI, himStyle, himStuck, himSentinel, himFrames,
             himCalls, scrolls, sentinelVisible, hasIO, ioDrops, stuckLog, himChanged,
             himDetached>>

vars == <<styles, hathVars, gwisVars, renders, himVars, thir, gil, reel, thann, trans>>

-----------------------------------------------------------------------------
(* Bounds of the model *)

\* lifecycle callbacks (connect, attribute change) delivered to the stack widgets
MaxRenders == 4

\* lifecycle callbacks (connect, attribute change) delivered to the sticky widget
MaxHimCalls == 3

\* times the sentinel's place enters or leaves the viewport
MaxScrolls == 2

\* lifecycle callbacks (connect, detach, touch attribute change) delivered to i-thir
MaxThirCalls == 3

\* touch-start events delivered to i-thir
MaxTouchStarts == 2

\* lifecycle callbacks (connect, detach, attribute change) delivered to i-gil
MaxGilCalls == 2

\* trigger events (pointer enter, focus, touch, proximity report) delivered to i-gil
MaxGilEvents == 2

\* lifecycle callbacks (connect, detach, attribute change) delivered to i-glan-tholl
MaxReelCalls == 3

\* resizes of the reel and changes of its children
MaxReelChanges == 2

\* children of the reel
MaxChildren == 2

\* transition() calls in one behaviour
MaxTransitions == 3

\* the switcher's documented default limit (get limit)
GwisDefaultLimit == 4

-----------------------------------------------------------------------------
(* Text helpers *)

\* getAttribute() of an attribute that is not set (null); no text contains this chunk
NoAttr == <<"<null>">>

\* a value the || operator replaces by the default: null or the empty string
Falsy(v) == v = NoAttr \/ v = << >>

LowerChars == {"a","b","c","d","e","f","g","h","i","j","k","l","m",
               "n","o","p","q","r","s","t","u","v","w","x","y","z"}
UpperChars == {"A","B","C","D","E","F","G","H","I","J","K","L","M",
               "N","O","P","Q","R","S","T","U","V","W","X","Y","Z"}
DigitChars == {"0","1","2","3","4","5","6","7","8","9"}

\* the class [\w-] of the regular expression /[^\w-]/g
IsWordOrDash(c) == c \in LowerChars \cup UpperChars \cup DigitChars \cup {"_", "-"}

\* str.replace(/[^\w-]/g, '')
Sanitize(s) == SelectSeq(s, IsWordOrDash)

DigitSeq == <<"0","1","2","3","4","5","6","7","8","9">>
DigitVal(c) == (CHOOSE k \in 1..10 : DigitSeq[k] = c) - 1

RECURSIVE SkipSpaces(_)
SkipSpaces(s) == IF s # << >> /\ Head(s) = " " THEN SkipSpaces(Tail(s)) ELSE s

RECURSIVE ReadDigits(_, _)
ReadDigits(s, acc) ==
  IF s # << >> /\ Head(s) \in DigitChars
    THEN ReadDigits(Tail(s), 10 * acc + DigitVal(Head(s)))
    ELSE acc

\* parseInt(text, 10): leading blanks, an optional sign, then the leading digits;
\* NaN when no digit follows
ParseInt(v) ==
  LET s == IF v = NoAttr THEN <<"n","u","l","l">> ELSE SkipSpaces(v)
      neg == s # << >> /\ Head(s) = "-"
      t == IF s # << >> /\ Head(s) \in {"-", "+"} THEN Tail(s) ELSE s
  IN  IF t = << >> \/ Head(t) \notin DigitChars
        THEN [nan |-> TRUE, n |-> 0]
        ELSE [nan |-> FALSE, n |-> IF neg THEN 0 - ReadDigits(t, 0) ELSE ReadDigits(t, 0)]

RECURSIVE NatToText(_)
NatToText(n) ==
  IF n < 10 THEN <<DigitSeq[n + 1]>> ELSE NatToText(n \div 10) \o <<DigitSeq[(n % 10) + 1]>>

\* `${n}` of a number
IntToText(n) == IF n < 0 THEN <<"-">> \o NatToText(0 - n) ELSE NatToText(n)

-----------------------------------------------------------------------------
(* The document's style list *)

\* document.getElementById(id), used as a presence test
GetElementByIdNever(st, id) == FALSE
GetElementById(st, id) == \E s \in BagToSet(st) : s.id = id

\* document.head.appendChild(styleEl)
AppendStyle(st, id, css) == st (+) SetToBag({[id |-> id, css |-> css]})

\* number of <style> elements of the document that carry this id
StyleCount(st, id) ==
  LET same == {s \in BagToSet(st) : s.id = id}
  IN  BagCardinality([s \in same |-> st[s]])

StyleIds(st) == {s.id : s \in BagToSet(st)}

-----------------------------------------------------------------------------
(* i-hath, the stack layout *)

HathEls == {"hathA", "hathB"}

T_var_s1 == <<"v","a","r","(","-","-","s","1",")">>
T_1p5rem == <<"1",".","5","r","e","m">>
T_15rem  == <<"1","5","r","e","m">>


\* get space()
HathSpace(a) == IF Falsy(a.space) THEN T_var_s1 ELSE a.space

\* get recursive()
HathRecursive(a) == a.recursive

\* get splitAfter(): null (here NaN) without a value, else parseInt
HathSplitAfter(a) == IF Falsy(a.split) THEN [nan |-> TRUE, n |-> 0] ELSE ParseInt(a.split)

\* the truthiness test `this.splitAfter ? ... : ...`: null, NaN and 0 are falsy
HathHasSplit(a) == ~HathSplitAfter(a).nan /\ HathSplitAfter(a).n # 0

\* the id computed by render()
HathId(a) ==
  Sanitize(<<"H","a","t","h","-">> \o HathSpace(a)
           \o (IF HathRecursive(a) THEN <<"-","r","e","c","u","r","s","i","v","e">> ELSE << >>)
           \o (IF HathHasSplit(a)
                 THEN <<"-","s","p","l","i","t">> \o IntToText(HathSplitAfter(a).n)
                 ELSE << >>))

Selector(id) == <<"[data-i=\"">> \o id \o <<"\"]">>

\* the CSS text render() builds
HathCss(a) ==
  LET sel == Selector(HathId(a))
  IN  sel \o (IF HathRecursive(a) THEN <<" * + * { margin-block-start: ">>
                                  ELSE <<" > * + * { margin-block-start: ">>)
          \o HathSpace(a) \o <<"; }">>
          \o (IF HathHasSplit(a)
                THEN sel \o <<" > :nth-child(">> \o IntToText(HathSplitAfter(a).n)
                         \o <<") { margin-block-end: auto; }">>
                ELSE << >>)

\* the stylesheet part of render(): insert-if-absent
HathRealize(st, a) ==
  IF GetElementById(st, HathId(a)) THEN st ELSE AppendStyle(st, HathId(a), HathCss(a))

\* render() of element e whose attributes are a
HathRender(e, a) ==
  /\ hathDataI' = [hathDataI EXCEPT ![e] = HathId(a)]
  /\ hathStyle' = [hathStyle EXCEPT ![e] = HathSpace(a)]
  /\ styles' = HathRealize(styles, a)

HathConnect(e) ==
  /\ renders < MaxRenders
  /\ ~hathConnected[e]
  /\ hathConnected' = [hathConnected EXCEPT ![e] = TRUE]
  /\ HathRender(e, hathAttr[e])
  /\ renders' = renders + 1
  /\ UNCHANGED <<hathAttr, gwisVars, himVars, thir, gil, reel, thann, trans>>

\* the element leaves the document; i-hath has no disconnectedCallback
HathDisconnect(e) ==
  /\ hathConnected[e]
  /\ hathConnected' = [hathConnected EXCEPT ![e] = FALSE]
  /\ UNCHANGED <<styles, hathAttr, hathDataI, hathStyle, renders, gwisVars, himVars, thir, gil, reel, thann, trans>>

\* setAttribute / toggling of an observed attribute, then attributeChangedCallback
HathSetAttribute(e, name, v) ==
  /\ renders < MaxRenders
  /\ hathAttr' = [hathAttr EXCEPT ![e][name] = v]
  /\ HathRender(e, hathAttr'[e])
  /\ renders' = renders + 1
  /\ UNCHANGED <<hathConnected, gwisVars, himVars, thir, gil, reel, thann, trans>>

\* removeAttribute of an attribute that is set, then attributeChangedCallback
HathRemoveAttribute(e, name) ==
  /\ renders < MaxRenders
  /\ hathAttr[e][name] # (IF name = "recursive" THEN FALSE ELSE NoAttr)
  /\ hathAttr' = [hathAttr EXCEPT ![e][name] = IF name = "recursive" THEN FALSE ELSE NoAttr]
  /\ HathRender(e, hathAttr'[e])
  /\ renders' = renders + 1
  /\ UNCHANGED <<hathConnected, gwisVars, himVars, thir, gil, reel, thann, trans>>

-----------------------------------------------------------------------------
(* i-gwistindor, the switcher layout *)

T_measure == <<"v","a","r","(","-","-","m","e","a","s","u","r","e",")">>
T_30rem == <<"3","0","r","e","m">>


\* get threshold()
GwisThreshold(a) == IF Falsy(a.threshold) THEN T_measure ELSE a.threshold

\* get space()
GwisSpace(a) == IF Falsy(a.space) THEN T_var_s1 ELSE a.space

\* get limit() with the || 4 left out: NaN (read as 0 here) is returned as it is
GwisLimitNoDefault(a) == ParseInt(a.limit).n

\* MiriantLayout get columns(): parseInt(getAttribute('columns'), 10) || 12
MiriantColumns(v) ==
  LET p == ParseInt(v) IN IF p.nan \/ p.n = 0 THEN 12 ELSE p.n

\* the delay of setupHoverPrefetch(): parseInt(getAttribute('prefetch-delay')) || 65
GilDelay(v) ==
  LET p == ParseInt(v) IN IF p.nan \/ p.n = 0 THEN 65 ELSE p.n

\* get limit(): parseInt(...) || 4
GwisLimit(a) ==
  LET p == ParseInt(a.limit) IN IF p.nan \/ p.n = 0 THEN GwisDefaultLimit ELSE p.n

\* the id computed by render()
GwisId(a) ==
  Sanitize(<<"G","w","i","s","t","i","n","d","o","r","-">> \o GwisThreshold(a)
           \o <<"-">> \o GwisSpace(a) \o <<"-">> \o IntToText(GwisLimit(a)))

\* the CSS text render() builds
GwisCss(a) ==
  LET sel == Selector(GwisId(a))
      n == IntToText(GwisLimit(a) + 1)
  IN  sel \o <<" { gap: ">> \o GwisSpace(a) \o <<"; } ">>
          \o sel \o <<" > * { flex-basis: calc((">> \o GwisThreshold(a) \o <<" - 100%) * 999); } ">>
          \o sel \o <<" > :nth-last-child(n+">> \o n \o <<"), ">>
          \o sel \o <<" > :nth-last-child(n+">> \o n \o <<") ~ * { flex-basis: 100%; }">>

\* the stylesheet part of render(): insert-if-absent
GwisRealize(st, a) ==
  IF GetElementById(st, GwisId(a)) THEN st ELSE AppendStyle(st, GwisId(a), GwisCss(a))

\* render() with attributes a
GwisRender(a) ==
  /\ gwisStyle' = [threshold |-> GwisThreshold(a), space |-> GwisSpace(a)]
  /\ gwisDataI' = GwisId(a)
  /\ styles' = GwisRealize(styles, a)

GwisConnect ==
  /\ renders < MaxRenders
  /\ ~gwisConnected
  /\ gwisConnected' = TRUE
  /\ GwisRender(gwisAttr)
  /\ renders' = renders + 1
  /\ UNCHANGED <<gwisAttr, hathVars, himVars, thir, gil, reel, thann, trans>>

\* the element leaves the document; i-gwistindor has no disconnectedCallback
GwisDisconnect ==
  /\ gwisConnected
  /\ gwisConnected' = FALSE
  /\ UNCHANGED <<styles, gwisAttr, gwisDataI, gwisStyle, renders, hathVars, himVars, thir, gil, reel, thann, trans>>

\* setAttribute of an observed attribute, then attributeChangedCallback
GwisSetAttribute(name, v) ==
  /\ renders < MaxRenders
  /\ gwisAttr' = [gwisAttr EXCEPT ![name] = v]
  /\ GwisRender(gwisAttr')
  /\ renders' = renders + 1
  /\ UNCHANGED <<gwisConnected, hathVars, himVars, thir, gil, reel, thann, trans>>

\* removeAttribute of an attribute that is set, then attributeChangedCallback
GwisRemoveAttribute(name) ==
  /\ renders < MaxRenders
  /\ gwisAttr[name] # NoAttr
  /\ gwisAttr' = [gwisAttr EXCEPT ![name] = NoAttr]
  /\ GwisRender(gwisAttr')
  /\ renders' = renders + 1
  /\ UNCHANGED <<gwisConnected, hathVars, himVars, thir, gil, reel, thann, trans>>

-----------------------------------------------------------------------------
(* i-thann, the icon layout *)

\* render(): the element's part. role and aria-label follow the label; the inline
\* --thann-space and dataset.i are written only when space has a value
ThannRender(t) ==
  LET l == IF Falsy(t.label)
             THEN [t EXCEPT !.role = NoAttr, !.ariaLabel = NoAttr]
             ELSE [t EXCEPT !.role = <<"i","m","g">>, !.ariaLabel = t.label]
  IN  IF Falsy(t.space)
        THEN l
        ELSE [l EXCEPT !.style = t.space,
                       !.dataI = Sanitize(<<"T","h","a","n","n","-">> \o t.space)]

\* render(): the document's part, insert-if-absent
ThannRealize(st, t) ==
  LET id == Sanitize(<<"T","h","a","n","n","-">> \o t.space)
  IN  IF Falsy(t.space) \/ GetElementById(st, id)
        THEN st
        ELSE AppendStyle(st, id, Selector(id) \o <<" { gap: ">> \o t.space \o <<"; }">>)

\* connectedCallback()
ThannConnect ==
  /\ renders < MaxRenders
  /\ ~thann.connected
  /\ thann' = ThannRender([thann EXCEPT !.connected = TRUE])
  /\ styles' = ThannRealize(styles, thann)
  /\ renders' = renders + 1
  /\ UNCHANGED <<hathVars, gwisVars, himVars, thir, gil, reel>>
  /\ UNCHANGED trans

\* setAttribute(name, v) or removeAttribute(name) (v null) of space or label, then
\* attributeChangedCallback()
ThannSetAttribute(name, v) ==
  /\ renders < MaxRenders
  /\ v # NoAttr \/ thann[name] # NoAttr
  /\ thann' = ThannRender([thann EXCEPT ![name] = v])
  /\ styles' = ThannRealize(styles, [thann EXCEPT ![name] = v])
  /\ renders' = renders + 1
  /\ UNCHANGED <<hathVars, gwisVars, himVars, thir, gil, reel>>
  /\ UNCHANGED trans

-----------------------------------------------------------------------------
(* i-him, the sticky layout with stuck detection *)


\* get to()
HimTo(a) == IF Falsy(a.to) THEN <<"t","o","p">> ELSE a.to

\* get offset()
HimOffset(a) == IF Falsy(a.offset) THEN <<"0">> ELSE a.offset

\* the id computed by render()
HimId(a) == Sanitize(<<"H","i","m","-">> \o HimTo(a) \o <<"-">> \o HimOffset(a))

\* the CSS text render() builds
HimCss(a) ==
  LET sel == Selector(HimId(a))
  IN  CASE HimTo(a) = <<"b","o","t","t","o","m">> ->
             sel \o <<" { inset-block-start: auto; inset-block-end: ">> \o HimOffset(a) \o <<"; }">>
        [] HimTo(a) = <<"l","e","f","t">> ->
             sel \o <<" { inset-block-start: auto; inset-inline-start: ">> \o HimOffset(a) \o <<"; }">>
        [] HimTo(a) = <<"r","i","g","h","t">> ->
             sel \o <<" { inset-block-start: auto; inset-inline-end: ">> \o HimOffset(a) \o <<"; }">>
        [] OTHER ->
             sel \o <<" { inset-block-start: ">> \o HimOffset(a) \o <<"; }">>

\* the stylesheet part of render(): insert-if-absent
HimRealize(st, a) ==
  IF GetElementById(st, HimId(a)) THEN st ELSE AppendStyle(st, HimId(a), HimCss(a))

\* observer.disconnect(): the observer stops observing.  The entries it has queued
\* and not delivered are discarded by some engines and still delivered by others.
Disconnect(h) ==
  [h EXCEPT !.live = {o \in h.live : o.id # h.observer},
            !.queue = IF ioDrops THEN SelectSeq(h.queue, LAMBDA q : q.obs # h.observer)
                                 ELSE h.queue]

\* the identity of a newly created sentinel and observer: one that no node or
\* observer the widget or the engine still refers to carries
FreshNode(h) ==
  LET used == {h.sentinelEl, h.observer} \cup {n.node : n \in h.dom}
                \cup {o.id : o \in h.live} \cup {h.queue[i].obs : i \in 1..Len(h.queue)}
  IN  CHOOSE k \in 1..(Cardinality(used) + 1) : k \notin used

\* cleanupSentinel() without the removal of the sentinel node
CleanupSentinelLeavingNode(h) ==
  LET d == IF h.observer # 0 THEN [Disconnect(h) EXCEPT !.observer = 0] ELSE h
  IN  [d EXCEPT !.sentinelEl = 0]

\* cleanupSentinel()
CleanupSentinel(h) ==
  LET d == IF h.observer # 0 THEN [Disconnect(h) EXCEPT !.observer = 0] ELSE h
  IN  IF d.sentinelEl # 0
        THEN [d EXCEPT !.dom = {n \in d.dom : n.node # d.sentinelEl}, !.sentinelEl = 0]
        ELSE d

\* setupSentinel() without the test of the sentinel attribute
SetupSentinelIgnoringFlag(h, a, connected, k) ==
  LET c == CleanupSentinel(h)
  IN  IF ~hasIO
        THEN c
        ELSE [c EXCEPT
               !.sentinelEl = k,
               !.dom = IF connected
                         THEN c.dom \cup {[node |-> k,
                                           where |-> IF HimTo(a) = <<"b","o","t","t","o","m">>
                                                       THEN "afterend" ELSE "beforebegin"]}
                         ELSE c.dom,
               !.observer = k,
               !.live = c.live \cup {[id |-> k, target |-> k, prev |-> "none"]}]

\* setupSentinel(): a, connected are the element's attributes and attachment when
\* the callback runs, k the identity of the nodes it creates
SetupSentinel(h, a, connected, k) ==
  LET c == CleanupSentinel(h)
  IN  IF ~a.sentinel \/ ~hasIO
        THEN c
        ELSE [c EXCEPT
               !.sentinelEl = k,
               \* insertAdjacentElement inserts only when the element has a parent
               !.dom = IF connected
                         THEN c.dom \cup {[node |-> k,
                                           where |-> IF HimTo(a) = <<"b","o","t","t","o","m">>
                                                       THEN "afterend" ELSE "beforebegin"]}
                         ELSE c.dom,
               !.observer = k,
               !.live = c.live \cup {[id |-> k, target |-> k, prev |-> "none"]}]

\* render() that also takes data-stuck off when it turns detection off
HimRenderClearingStuck(a) ==
  /\ himStyle' = HimOffset(a)
  /\ himDataI' = HimId(a)
  /\ styles' = HimRealize(styles, a)
  /\ IF a.sentinel
       THEN /\ himFrames' = himFrames + 1
            /\ UNCHANGED <<himSentinel, himStuck>>
       ELSE /\ himSentinel' = CleanupSentinel(himSentinel)
            /\ himStuck' = "none"
            /\ UNCHANGED himFrames
  /\ UNCHANGED stuckLog

\* render() with attributes a; it neither writes dataset.stuck nor dispatches
HimRender(a) ==
  /\ himStyle' = HimOffset(a)
  /\ himDataI' = HimId(a)
  /\ styles' = HimRealize(styles, a)
  /\ IF a.sentinel
       THEN /\ himFrames' = himFrames + 1
            /\ UNCHANGED himSentinel
       ELSE /\ himSentinel' = CleanupSentinel(himSentinel)
            /\ UNCHANGED himFrames
  /\ UNCHANGED <<himStuck, stuckLog>>

HimConnect ==
  /\ himCalls < MaxHimCalls
  /\ ~himConnected
  /\ himConnected' = TRUE
  /\ himDetached' = FALSE
  /\ HimRender(himAttr)
  /\ himChanged' = TRUE
  /\ himCalls' = himCalls + 1
  /\ UNCHANGED <<himAttr, scrolls, sentinelVisible, hasIO, ioDrops>>
  /\ UNCHANGED <<hathVars, gwisVars, renders, thir, gil, reel, thann, trans>>

\* disconnectedCallback()
HimDisconnect ==
  /\ himConnected
  /\ himConnected' = FALSE
  /\ himDetached' = TRUE
  /\ himSentinel' = CleanupSentinel(himSentinel)
  /\ himChanged' = TRUE
  /\ UNCHANGED <<himAttr, himDataI, himStyle, himStuck, himFrames,
                 himCalls, scrolls, sentinelVisible, hasIO, ioDrops, stuckLog>>
  /\ UNCHANGED <<styles, hathVars, gwisVars, renders, thir, gil, reel, thann, trans>>

\* setAttribute of an observed attribute (possibly to the value it has), then
\* attributeChangedCallback
HimSetAttribute(name, v) ==
  /\ himCalls < MaxHimCalls
  /\ himAttr' = [himAttr EXCEPT ![name] = v]
  /\ HimRender(himAttr')
  /\ himChanged' = (himChanged \/ himAttr' # himAttr)
  /\ himCalls' = himCalls + 1
  /\ UNCHANGED <<himConnected, scrolls, sentinelVisible, hasIO, ioDrops>>
  /\ UNCHANGED himDetached
  /\ UNCHANGED <<hathVars, gwisVars, renders, thir, gil, reel, thann, trans>>

\* removeAttribute of an attribute that is set, then attributeChangedCallback
HimRemoveAttribute(name) ==
  /\ himCalls < MaxHimCalls
  /\ himAttr[name] # (IF name = "sentinel" THEN FALSE ELSE NoAttr)
  /\ himAttr' = [himAttr EXCEPT ![name] = IF name = "sentinel" THEN FALSE ELSE NoAttr]
  /\ HimRender(himAttr')
  /\ himChanged' = TRUE
  /\ himCalls' = himCalls + 1
  /\ UNCHANGED <<himConnected, scrolls, sentinelVisible, hasIO, ioDrops>>
  /\ UNCHANGED himDetached
  /\ UNCHANGED <<hathVars, gwisVars, renders, thir, gil, reel, thann, trans>>

RECURSIVE RunFrameCallbacks(_, _)
\* n frame callbacks () => this.setupSentinel() run one after the other
RunFrameCallbacks(h, n) ==
  IF n = 0
    THEN h
    ELSE RunFrameCallbacks(SetupSentinel(h, himAttr, himConnected, FreshNode(h)), n - 1)

\* the animation-frame step of a rendering update: every frame callback that
\* render() has scheduled runs, in order, with no other task in between
HimFrame ==
  /\ himFrames > 0
  /\ himFrames' = 0
  /\ himSentinel' = RunFrameCallbacks(himSentinel, himFrames)
  /\ himChanged' = FALSE
  /\ UNCHANGED <<himAttr, himConnected, himDataI, himStyle, himStuck, himCalls, scrolls,
                 sentinelVisible, hasIO, ioDrops, stuckLog>>
  /\ UNCHANGED himDetached
  /\ UNCHANGED <<styles, hathVars, gwisVars, renders, thir, gil, reel, thann, trans>>

\* isIntersecting of a target: a node outside the document intersects nothing
Intersects(h, target) == sentinelVisible /\ \E n \in h.dom : n.node = target

BoolText(b) == IF b THEN "true" ELSE "false"

\* the intersection step of a rendering update, which follows the frame callbacks:
\* an observer whose target's isIntersecting differs from what it last computed
\* (always, the first time) queues an entry
IOUpdate(o) ==
  /\ himFrames = 0
  /\ o \in himSentinel.live
  /\ o.prev # BoolText(Intersects(himSentinel, o.target))
  /\ himSentinel' =
       [himSentinel EXCEPT
          !.live = (himSentinel.live \ {o})
                     \cup {[o EXCEPT !.prev = BoolText(Intersects(himSentinel, o.target))]},
          !.queue = Append(himSentinel.queue,
                           [obs |-> o.id, isIntersecting |-> Intersects(himSentinel, o.target)])]
  /\ UNCHANGED <<himAttr, himConnected, himDataI, himStyle, himStuck, himFrames,
                 himCalls, scrolls, sentinelVisible, hasIO, ioDrops, stuckLog, himChanged>>
  /\ UNCHANGED himDetached
  /\ UNCHANGED <<styles, hathVars, gwisVars, renders, thir, gil, reel, thann, trans>>

\* entries.forEach: the detail.stuck of the events dispatched, in order
StuckOfVisibility(entries) == [i \in 1..Len(entries) |-> entries[i].isIntersecting]
RECURSIVE StuckOf(_)
StuckOf(entries) ==
  IF entries = << >> THEN << >> ELSE <<~Head(entries).isIntersecting>> \o StuckOf(Tail(entries))

\* the observer callback of setupSentinel(), invoked with the entries one observer
\* has queued
IODeliver ==
  /\ himSentinel.queue # << >>
  /\ LET ob == Head(himSentinel.queue).obs
         entries == SelectSeq(himSentinel.queue, LAMBDA q : q.obs = ob)
         out == StuckOf(entries)
     IN  /\ himStuck' = BoolText(out[Len(out)])
         /\ stuckLog' = stuckLog \o out
         /\ himSentinel' = [himSentinel EXCEPT
                              !.queue = SelectSeq(himSentinel.queue, LAMBDA q : q.obs # ob)]
  /\ UNCHANGED <<himAttr, himConnected, himDataI, himStyle, himFrames,
                 himCalls, scrolls, sentinelVisible, hasIO, ioDrops, himChanged>>
  /\ UNCHANGED himDetached
  /\ UNCHANGED <<styles, hathVars, gwisVars, renders, thir, gil, reel, thann, trans>>

\* the user scrolls: the sentinel's place enters or leaves the viewport
Scroll ==
  /\ scrolls < MaxScrolls
  /\ scrolls' = scrolls + 1
  /\ sentinelVisible' = ~sentinelVisible
  /\ UNCHANGED <<himAttr, himConnected, himDataI, himStyle, himStuck, himSentinel, himFrames,
                 himCalls, hasIO, ioDrops, stuckLog, himChanged>>
  /\ UNCHANGED himDetached
  /\ UNCHANGED <<styles, hathVars, gwisVars, renders, thir, gil, reel, thann, trans>>

InitHim ==
  /\ himAttr = [to |-> NoAttr, offset |-> NoAttr, sentinel |-> FALSE]
  /\ himConnected = FALSE
  /\ himDataI = NoAttr
  /\ himStyle = NoAttr
  /\ himStuck = "none"
  /\ himSentinel = [sentinelEl |-> 0, observer |-> 0, dom |-> {}, live |-> {}, queue |-> << >>]
  /\ himFrames = 0
  /\ himCalls = 0
  /\ scrolls = 0
  /\ sentinelVisible \in BOOLEAN
  /\ hasIO \in BOOLEAN
  /\ ioDrops \in BOOLEAN
  /\ stuckLog = << >>
  /\ himChanged = FALSE
  /\ himDetached = FALSE

NextHim ==
  \/ HimConnect
  \/ HimDisconnect
  \/ \E v \in {<<"b","o","t","t","o","m">>} : HimSetAttribute("to", v)
  \/ \E v \in {<<"1">>} : HimSetAttribute("offset", v)
  \/ HimSetAttribute("sentinel", TRUE)
  \/ \E n \in {"to", "offset", "sentinel"} : HimRemoveAttribute(n)
  \/ HimFrame
  \/ \E o \in himSentinel.live : IOUpdate(o)
  \/ IODeliver
  \/ Scroll

-----------------------------------------------------------------------------
(* i-thir long press: the per-instance listeners of the element class and the    *)
(* delegated document-level listeners of touch.js                               *)

T_pulse == <<"p","u","l","s","e">>
T_lift == <<"l","i","f","t">>


\* dispatchEvent(new CustomEvent(type, {detail})): the observer keeps the number of
\* events of each type, the last type and the last activation's effect name
Dispatch(t, type, effect) ==
  IF type = "thir:touch-active"
    THEN [t EXCEPT !.activations = t.activations + 1, !.lastEvent = type, !.detail = effect]
    ELSE [t EXCEPT !.deactivations = t.deactivations + 1, !.lastEvent = type]

\* ThirElement._getTouchEffect()
GetTouchEffect(t) ==
  IF ~Falsy(t.touch) /\ t.touch # <<"t","r","u","e">>
    THEN t.touch
    ELSE IF Falsy(t.hover) THEN <<"d","e","f","a","u","l","t">> ELSE t.hover

\* _clearTouchTimer(): clearTimeout(this._touchTimer), a no-op on a timer that fired
ThirClearTouchTimer(t) ==
  IF t.touchTimer # "null" THEN [t EXCEPT !.touchTimer = "null"] ELSE t

\* _activateTouch()
ThirActivateTouch(t) ==
  Dispatch([t EXCEPT !.touchActive = TRUE, !.classTouchActive = TRUE],
           "thir:touch-active", GetTouchEffect(t))

\* _deactivateTouch()
ThirDeactivateTouch(t) ==
  Dispatch([t EXCEPT !.touchActive = FALSE, !.classTouchActive = FALSE],
           "thir:touch-inactive", NoAttr)

\* _handleTouchStart(e): this._touchTimer = setTimeout(activate, 300)
ThirHandleTouchStart(t) == [ThirClearTouchTimer(t) EXCEPT !.touchTimer = "pending"]

\* _handleTouchEnd(e): setTimeout(deactivate, 600), whose handle is not kept
ThirHandleTouchEndKeepTimer(t) ==
  IF t.touchActive THEN [t EXCEPT !.graceTimers = t.graceTimers + 1] ELSE t
ThirHandleTouchEnd(t) ==
  LET c == ThirClearTouchTimer(t)
  IN  IF c.touchActive THEN [c EXCEPT !.graceTimers = c.graceTimers + 1] ELSE c

\* _handleTouchCancel(e)
ThirHandleTouchCancel(t) == ThirDeactivateTouch(ThirClearTouchTimer(t))

\* _initTouchSupport(): three newly bound listeners are added; the listeners bound
\* by an earlier call stay registered and are no longer referenced
ThirInitTouchSupport(t) ==
  [t EXCEPT !.listeners = t.listeners + 1, !.onTouchStart = "registered"]

\* _cleanupTouchSupport(): removes the listeners this._onTouchStart/End/Cancel refer to
ThirCleanupTouchSupport(t) ==
  ThirClearTouchTimer(
    IF t.onTouchStart = "registered"
      THEN [t EXCEPT !.listeners = t.listeners - 1, !.onTouchStart = "removed"]
      ELSE t)

\* getTouchEffect(element) with the fall-back to the hover attribute left out
getTouchEffectNoHover(t) ==
  IF ~Falsy(t.touch) THEN t.touch ELSE <<"d","e","f","a","u","l","t">>

\* getTouchEffect(element) of touch.js
getTouchEffect(t) ==
  LET touchAttr == t.touch
  IN  IF touchAttr # NoAttr /\ touchAttr # << >> /\ touchAttr # <<"t","r","u","e">>
        THEN touchAttr
        ELSE IF t.hover = NoAttr \/ t.hover = << >>
               THEN <<"d","e","f","a","u","l","t">>
               ELSE t.hover

\* clearTouchTimer(element)
clearTouchTimer(t) ==
  IF t.touchTimers # "null" THEN [t EXCEPT !.touchTimers = "null"] ELSE t

\* activateTouch(element)
activateTouch(t) ==
  Dispatch([t EXCEPT !.classTouchActive = TRUE, !.activeElements = TRUE],
           "thir:touch-active", getTouchEffect(t))

\* deactivateTouch(element)
deactivateTouch(t) ==
  Dispatch([t EXCEPT !.classTouchActive = FALSE, !.activeElements = FALSE],
           "thir:touch-inactive", NoAttr)

\* event.target.closest('i-thir[touch]') finds the element: the event reaches the
\* document's listeners and the element carries the touch attribute
DelegatedTarget(t) == t.delegated /\ t.connected /\ t.touch # NoAttr

\* handleTouchStart(event): touchTimers.set(target, setTimeout(activate, LONG_PRESS_DURATION))
handleTouchStart(t) ==
  IF ~DelegatedTarget(t) THEN t
  ELSE [clearTouchTimer(t) EXCEPT !.touchTimers = "pending"]

\* handleTouchEnd(event): setTimeout(deactivate, TOUCH_ACTIVE_DURATION), handle not kept
handleTouchEnd(t) ==
  IF ~DelegatedTarget(t) THEN t
  ELSE LET c == clearTouchTimer(t)
       IN  IF c.activeElements
             THEN [c EXCEPT !.delegatedGraceTimers = c.delegatedGraceTimers + 1]
             ELSE c

\* handleTouchCancel(event)
handleTouchCancel(t) ==
  IF ~DelegatedTarget(t) THEN t ELSE deactivateTouch(clearTouchTimer(t))

RECURSIVE ThirListeners(_, _, _)
\* the n registered per-instance listeners of one event type run in turn
ThirListeners(type, t, n) ==
  IF n = 0 THEN t
  ELSE ThirListeners(type,
                     CASE type = "touchstart" -> ThirHandleTouchStart(t)
                       [] type = "touchend" -> ThirHandleTouchEnd(t)
                       [] OTHER -> ThirHandleTouchCancel(t),
                     n - 1)

\* one touch event dispatched at the element: its own listeners, then the document's
DispatchTouch(type, t) ==
  LET own == ThirListeners(type, t, t.listeners)
  IN  CASE type = "touchstart" -> handleTouchStart(own)
        [] type = "touchend" -> handleTouchEnd(own)
        [] OTHER -> handleTouchCancel(own)

\* connectedCallback()
ThirConnect ==
  /\ thir.calls < MaxThirCalls
  /\ ~thir.connected
  /\ thir' = [(IF thir.touch # NoAttr THEN ThirInitTouchSupport(thir) ELSE thir)
                EXCEPT !.connected = TRUE, !.calls = thir.calls + 1, !.stable = FALSE]
  /\ UNCHANGED <<styles, hathVars, gwisVars, renders, himVars, gil, reel, thann, trans>>

\* disconnectedCallback()
ThirDisconnect ==
  /\ thir.calls < MaxThirCalls
  /\ thir.connected
  /\ thir' = [ThirCleanupTouchSupport(thir)
                EXCEPT !.connected = FALSE, !.calls = thir.calls + 1, !.stable = FALSE]
  /\ UNCHANGED <<styles, hathVars, gwisVars, renders, himVars, gil, reel, thann, trans>>

\* setAttribute('touch', v), then attributeChangedCallback('touch', old, v)
ThirSetTouch(v) ==
  /\ thir.calls < MaxThirCalls
  /\ thir' = [ThirInitTouchSupport([thir EXCEPT !.touch = v])
                EXCEPT !.calls = thir.calls + 1, !.stable = FALSE]
  /\ UNCHANGED <<styles, hathVars, gwisVars, renders, himVars, gil, reel, thann, trans>>

\* removeAttribute('touch'), then attributeChangedCallback('touch', old, null)
ThirRemoveTouch ==
  /\ thir.calls < MaxThirCalls
  /\ thir.touch # NoAttr
  /\ thir' = [ThirCleanupTouchSupport([thir EXCEPT !.touch = NoAttr])
                EXCEPT !.calls = thir.calls + 1, !.stable = FALSE]
  /\ UNCHANGED <<styles, hathVars, gwisVars, renders, himVars, gil, reel, thann, trans>>

\* a finger touches the attached element
TouchStart ==
  /\ thir.starts < MaxTouchStarts
  /\ thir.connected
  /\ thir' = [DispatchTouch("touchstart", thir)
                EXCEPT !.fingers = thir.fingers + 1, !.starts = thir.starts + 1,
                       !.stable = (thir.touch # NoAttr)]
  /\ UNCHANGED <<styles, hathVars, gwisVars, renders, himVars, gil, reel, thann, trans>>

\* a finger is lifted
TouchEnd ==
  /\ thir.fingers > 0
  /\ thir' = [DispatchTouch("touchend", thir) EXCEPT !.fingers = thir.fingers - 1]
  /\ UNCHANGED <<styles, hathVars, gwisVars, renders, himVars, gil, reel, thann, trans>>

\* the engine cancels a touch
TouchCancel ==
  /\ thir.fingers > 0
  /\ thir' = [DispatchTouch("touchcancel", thir)
                EXCEPT !.fingers = thir.fingers - 1, !.cancelled = TRUE]
  /\ UNCHANGED <<styles, hathVars, gwisVars, renders, himVars, gil, reel, thann, trans>>

\* the long-press delay has elapsed: the pending press timer of impl runs its callback
PressTimerFires(impl) ==
  /\ \/ /\ impl = "thir"
        /\ thir.touchTimer = "pending"
        /\ thir' = ThirActivateTouch([thir EXCEPT !.touchTimer = "fired"])
     \/ /\ impl = "delegated"
        /\ thir.touchTimers = "pending"
        /\ thir' = activateTouch([thir EXCEPT !.touchTimers = "fired"])
  /\ UNCHANGED <<styles, hathVars, gwisVars, renders, himVars, gil, reel, thann, trans>>

\* the decay delay has elapsed: one pending grace timer of impl runs its callback
GraceTimerFires(impl) ==
  /\ \/ /\ impl = "thir"
        /\ thir.graceTimers > 0
        /\ thir' = ThirDeactivateTouch([thir EXCEPT !.graceTimers = thir.graceTimers - 1])
     \/ /\ impl = "delegated"
        /\ thir.delegatedGraceTimers > 0
        /\ thir' = deactivateTouch(
                     [thir EXCEPT !.delegatedGraceTimers = thir.delegatedGraceTimers - 1])
  /\ UNCHANGED <<styles, hathVars, gwisVars, renders, himVars, gil, reel, thann, trans>>

\* triggerTouch(element): activateTouch, then setTimeout(deactivate, duration), whose
\* handle is not kept
triggerTouch(t) ==
  LET a == activateTouch(t)
  IN  [a EXCEPT !.delegatedGraceTimers = a.delegatedGraceTimers + 1]

\* a script calls window.ElvishTouch.activate / deactivate / trigger on the element
ElvishTouch(fn) ==
  /\ thir.calls < MaxThirCalls
  /\ thir.delegated
  /\ thir' = [(CASE fn = "activate" -> activateTouch(thir)
                 [] fn = "deactivate" -> deactivateTouch(thir)
                 [] OTHER -> triggerTouch(thir))
                EXCEPT !.calls = thir.calls + 1, !.stable = FALSE]
  /\ UNCHANGED <<styles, hathVars, gwisVars, renders, himVars, gil, reel, thann, trans>>

InitThir ==
  \E d \in BOOLEAN, h \in {NoAttr, T_lift} :
    thir = [touch |-> NoAttr,           \* the touch attribute
            hover |-> h,                \* the hover attribute
            connected |-> FALSE,
            listeners |-> 0,            \* per-instance listener triples registered
            onTouchStart |-> "none",    \* this._onTouchStart: unset, or a listener
                                        \* that is registered / has been removed
            touchTimer |-> "null",      \* this._touchTimer: null, or the handle of a
                                        \* press timer that is pending / has fired
            graceTimers |-> 0,          \* pending timers started by _handleTouchEnd
            touchActive |-> FALSE,      \* this._touchActive
            delegated |-> d,            \* touch.js is loaded: initTouchSupport() ran
            touchTimers |-> "null",     \* touchTimers.get(element), as touchTimer
            delegatedGraceTimers |-> 0, \* pending timers started by handleTouchEnd
                                        \* or triggerTouch
            activeElements |-> FALSE,   \* activeElements.has(element)
            classTouchActive |-> FALSE, \* classList.contains('touch-active')
            activations |-> 0,          \* thir:touch-active events dispatched
            deactivations |-> 0,        \* thir:touch-inactive events dispatched
            lastEvent |-> "none",       \* type of the last event dispatched
            detail |-> NoAttr,          \* detail.effect of the last thir:touch-active
            fingers |-> 0,              \* touches on the element that have not ended
            starts |-> 0,               \* touch-start events so far (bounded)
            calls |-> 0,                \* lifecycle callbacks and script calls so far
                                        \* (bounded)
            stable |-> FALSE,           \* touch attribute present at the last touch-start
                                        \* and no lifecycle callback or script call since
            cancelled |-> FALSE]        \* a touch-cancel has been delivered

NextThir ==
  \/ ThirConnect
  \/ ThirDisconnect
  \/ \E v \in {<< >>, <<"t","r","u","e">>, T_pulse} : ThirSetTouch(v)
  \/ ThirRemoveTouch
  \/ TouchStart
  \/ TouchEnd
  \/ TouchCancel
  \/ \E impl \in {"thir", "delegated"} : PressTimerFires(impl)
  \/ \E impl \in {"thir", "delegated"} : GraceTimerFires(impl)

\* the touch steps together with the calls a script makes through window.ElvishTouch
NextThirScript ==
  \/ NextThir
  \/ \E fn \in {"activate", "deactivate", "trigger"} : ElvishTouch(fn)

-----------------------------------------------------------------------------
(* i-gil: prefetch triggers and prefetch runs                                   *)

T_html == <<"h","t","m","l">>
T_href == <<"/","a">>
\* prefetch="icons css:s,t"
T_prefetch == <<"i","c","o","n","s"," ","c","s","s",":","s",",","t">>


RECURSIVE SplitText(_, _, _)
\* s.split(sep); with merge, a run of separators counts as one (split(/\s+/))
SplitText(s, sep, merge) ==
  IF \A i \in 1..Len(s) : s[i] # sep THEN <<s>>
  ELSE LET i == CHOOSE k \in 1..Len(s) : s[k] = sep /\ \A j \in 1..(k - 1) : s[j] # sep
           after == SubSeq(s, i + 1, Len(s))
           skip == IF merge /\ \E k \in 1..Len(after) : after[k] # sep
                     THEN (CHOOSE k \in 1..Len(after) :
                             after[k] # sep /\ \A j \in 1..(k - 1) : after[j] = sep) - 1
                     ELSE IF merge THEN Len(after) ELSE 0
       IN  <<SubSeq(s, 1, i - 1)>> \o SplitText(SubSeq(after, skip + 1, Len(after)), sep, merge)

RECURSIVE parsePrefetch(_)
\* parsePrefetch(), over the parts of the attribute; an item needs no trim(), the
\* parts were split at white space
parsePrefetch(parts) ==
  IF parts = << >> THEN << >>
  ELSE LET part == Head(parts)
           fields == SplitText(part, ":", FALSE)
           items == SplitText(fields[2], ",", FALSE)
       IN  (IF Len(fields) >= 2
              THEN [i \in 1..Len(items) |-> [type |-> fields[1], value |-> items[i]]]
              ELSE <<[type |-> part, value |-> NoAttr]>>)
           \o parsePrefetch(Tail(parts))

\* the resources of a run: parsePrefetch() of getAttribute('prefetch') || 'html'
Resources(g) ==
  parsePrefetch(SplitText(IF Falsy(g.prefetch) THEN T_html ELSE g.prefetch, " ", TRUE))

\* `${x}` of an attribute value that may be null
TemplateText(v) == IF v = NoAttr THEN <<"n","u","l","l">> ELSE v

\* key = `${type}:${value || href}`
PrefetchKey(r, href) ==
  r.type \o <<":">> \o (IF Falsy(r.value) THEN TemplateText(href) ELSE r.value)

\* the switch of doPrefetch awaits the attempt of these types; icons and unknown
\* types go on without suspending
Awaits(type) ==
  type \in {T_html, <<"c","s","s">>, <<"j","s">>, <<"j","s","o","n">>, <<"i","m","a","g","e">>}

\* this.prefetched.has(key)
PrefetchedHasNever(prefetched, key) == FALSE
PrefetchedHas(prefetched, key) == key \in prefetched

\* the attempt throws: prefetchIcons(null), reached by the shorthand part "icons",
\* calls names.split on null when window.ElvishIcons is there
Throws(g, r) == r.type = <<"i","c","o","n","s">> /\ r.value = NoAttr /\ g.hasIcons

RECURSIVE PrefetchLoop(_, _, _)
RECURSIVE Catch(_, _, _, _)
\* the for loop of doPrefetch from resource list rs on, up to its next await (the run
\* is then suspended) or to its end (the prefetched event is dispatched); run holds
\* the href the run read, the keys of its batch and whether it has caught a failure
PrefetchLoop(g, rs, run) ==
  IF rs = << >>
    THEN [g EXCEPT !.prefetchedEvents = g.prefetchedEvents + 1,
                   !.lastEnded = [batch |-> run.batch, threw |-> run.threw]]
  ELSE LET r == Head(rs)
           key == PrefetchKey(r, run.href)
           url == IF r.type = T_html /\ Falsy(r.value) THEN run.href ELSE r.value
           g1 == [g EXCEPT !.prefetched = g.prefetched \cup {key},
                           !.fetches = g.fetches (+) SetToBag({[key |-> key, type |-> r.type,
                                                                url |-> url]})]
       IN  IF PrefetchedHas(g.prefetched, key) THEN PrefetchLoop(g, Tail(rs), run)
           ELSE IF Throws(g, r) THEN Catch(g1, key, Tail(rs), run)
           ELSE IF Awaits(r.type)
             THEN [g1 EXCEPT !.runs = g1.runs (+) SetToBag({[rest |-> Tail(rs), run |-> run]})]
             ELSE PrefetchLoop(g1, Tail(rs), run)

\* catch (err) { console.warn(...) }, and the loop goes on
CatchAndAbort(g, key, rs, run) == [g EXCEPT !.caught = g.caught \cup {key}]
Catch(g, key, rs, run) ==
  PrefetchLoop([g EXCEPT !.caught = g.caught \cup {key}], rs, [run EXCEPT !.threw = TRUE])

\* doPrefetch(), up to its first await
doPrefetch(g) ==
  LET rs == Resources(g)
  IN  PrefetchLoop([g EXCEPT !.started = g.started + 1], rs,
                   [href |-> g.href, threw |-> FALSE,
                    batch |-> {PrefetchKey(rs[i], g.href) : i \in 1..Len(rs)}])

RECURSIVE doPrefetchTimes(_, _)
\* n listeners that each call doPrefetch()
doPrefetchTimes(g, n) == IF n = 0 THEN g ELSE doPrefetchTimes(doPrefetch(g), n - 1)

\* setupHoverPrefetch(): new onEnter/onLeave listeners and a new touchstart listener;
\* this._cleanup now removes the new onEnter/onLeave listeners
setupHoverPrefetch(g) ==
  [g EXCEPT !.hoverListeners = g.hoverListeners + 1,
            !.touchListeners = g.touchListeners + 1,
            !.cleanupRef = "registered"]

\* setupVisiblePrefetch(): this.observer = new IntersectionObserver(...); observe(this).
\* Where window has no IntersectionObserver the constructor call throws a
\* ReferenceError, which nothing catches: it leaves the lifecycle callback
setupVisiblePrefetch(g) ==
  IF hasIO
    THEN [g EXCEPT !.observer = "observing",
                   !.orphanObservers = g.orphanObservers
                                         + (IF g.observer = "observing" THEN 1 ELSE 0)]
    ELSE [g EXCEPT !.threw = TRUE]

\* setupIdlePrefetch(): requestIdleCallback, or setTimeout(200) without it
setupIdlePrefetch(g) == [g EXCEPT !.idleCallbacks = g.idleCallbacks + 1]

\* setupPrefetch()
setupPrefetch(g) ==
  LET trigger == IF g.on \in {"<null>", ""} THEN "hover" ELSE g.on
  IN  CASE trigger = "hover" -> setupHoverPrefetch(g)
        [] trigger = "visible" -> setupVisiblePrefetch(g)
        [] trigger = "idle" -> setupIdlePrefetch(g)
        [] trigger = "immediate" -> doPrefetch(g)
        [] OTHER -> g

\* cleanup() that also empties this.prefetched
cleanupForgettingRequests(g) ==
  [g EXCEPT !.hoverTimer = IF g.hoverTimer = "pending" THEN "cleared" ELSE g.hoverTimer,
            !.observer = IF g.observer = "observing" THEN "disconnected" ELSE g.observer,
            !.hoverListeners = IF g.cleanupRef = "registered" THEN g.hoverListeners - 1
                               ELSE g.hoverListeners,
            !.cleanupRef = IF g.cleanupRef = "registered" THEN "removed" ELSE g.cleanupRef,
            !.prefetched = {}]

\* cleanup(): clearTimeout(this.hoverTimer) without resetting it, observer.disconnect(),
\* this._cleanup()
cleanup(g) ==
  [g EXCEPT !.hoverTimer = IF g.hoverTimer = "pending" THEN "cleared" ELSE g.hoverTimer,
            !.observer = IF g.observer = "observing" THEN "disconnected" ELSE g.observer,
            !.hoverListeners = IF g.cleanupRef = "registered" THEN g.hoverListeners - 1
                               ELSE g.hoverListeners,
            !.cleanupRef = IF g.cleanupRef = "registered" THEN "removed" ELSE g.cleanupRef]

\* onEnter: this.hoverTimer = setTimeout(...); a timer the handle referred to goes on
onEnter(g) ==
  [g EXCEPT !.hoverTimer = "pending",
            !.orphanTimers = g.orphanTimers + (IF g.hoverTimer = "pending" THEN 1 ELSE 0)]

\* onLeave
onLeave(g) == IF g.hoverTimer # "null" THEN [g EXCEPT !.hoverTimer = "null"] ELSE g

RECURSIVE HoverListeners(_, _, _)
\* the n registered onEnter (or onLeave) listeners run in turn
HoverListeners(enter, g, n) ==
  IF n = 0 THEN g
  ELSE HoverListeners(enter, IF enter THEN onEnter(g) ELSE onLeave(g), n - 1)

\* connectedCallback()
GilConnect ==
  /\ gil.calls < MaxGilCalls
  /\ ~gil.connected
  /\ gil' = [setupPrefetch(
               [gil EXCEPT !.anchor = IF gil.anchor # NoAttr THEN gil.anchor
                                      ELSE IF Falsy(gil.href) THEN <<"#">> ELSE gil.href])
               EXCEPT !.connected = TRUE, !.detached = FALSE, !.calls = gil.calls + 1]
  /\ UNCHANGED <<styles, hathVars, gwisVars, renders, himVars, thir, reel, thann, trans>>

\* disconnectedCallback(); the pointer and the focus are no longer on the element
GilDisconnect ==
  /\ gil.calls < MaxGilCalls
  /\ gil.connected
  /\ gil' = [cleanup(gil) EXCEPT !.connected = FALSE, !.detached = TRUE,
                                 !.calls = gil.calls + 1,
                                 !.pointerIn = FALSE, !.focusIn = FALSE]
  /\ UNCHANGED <<styles, hathVars, gwisVars, renders, himVars, thir, reel, thann, trans>>

\* setAttribute(name, v) or removeAttribute(name) (v null), then
\* attributeChangedCallback(name, old, v)
GilSetAttribute(name, v) ==
  /\ gil.calls < MaxGilCalls
  /\ \/ /\ name = "href"
        /\ v # NoAttr \/ gil.href # NoAttr
        /\ gil' = [gil EXCEPT !.href = v, !.calls = gil.calls + 1, !.detached = FALSE,
                              !.anchor = IF gil.anchor # NoAttr THEN TemplateText(v)
                                         ELSE gil.anchor]
     \/ /\ name = "prefetch"
        /\ v # NoAttr \/ gil.prefetch # NoAttr
        /\ gil' = [gil EXCEPT !.prefetch = v, !.calls = gil.calls + 1,
                              !.detached = FALSE]
  /\ UNCHANGED <<styles, hathVars, gwisVars, renders, himVars, thir, reel, thann, trans>>

\* setAttribute('prefetch-on', v) or removeAttribute('prefetch-on') (v "<null>")
GilSetPrefetchOn(v) ==
  /\ gil.calls < MaxGilCalls
  /\ v # "<null>" \/ gil.on # "<null>"
  /\ gil' = [setupPrefetch(cleanup([gil EXCEPT !.on = v]))
               EXCEPT !.calls = gil.calls + 1, !.detached = FALSE]
  /\ UNCHANGED <<styles, hathVars, gwisVars, renders, himVars, thir, reel, thann, trans>>

\* mouseenter on the attached element
MouseEnter ==
  /\ gil.events < MaxGilEvents
  /\ gil.connected /\ ~gil.pointerIn
  /\ gil' = [HoverListeners(TRUE, gil, gil.hoverListeners)
               EXCEPT !.pointerIn = TRUE, !.events = gil.events + 1]
  /\ UNCHANGED <<styles, hathVars, gwisVars, renders, himVars, thir, reel, thann, trans>>

\* mouseleave
MouseLeave ==
  /\ gil.pointerIn
  /\ gil' = [HoverListeners(FALSE, gil, gil.hoverListeners) EXCEPT !.pointerIn = FALSE]
  /\ UNCHANGED <<styles, hathVars, gwisVars, renders, himVars, thir, reel, thann, trans>>

\* focus on the anchor, seen by the capturing listener
Focus ==
  /\ gil.events < MaxGilEvents
  /\ gil.connected /\ ~gil.focusIn
  /\ gil' = [HoverListeners(TRUE, gil, gil.hoverListeners)
               EXCEPT !.focusIn = TRUE, !.events = gil.events + 1]
  /\ UNCHANGED <<styles, hathVars, gwisVars, renders, himVars, thir, reel, thann, trans>>

\* blur
Blur ==
  /\ gil.focusIn
  /\ gil' = [HoverListeners(FALSE, gil, gil.hoverListeners) EXCEPT !.focusIn = FALSE]
  /\ UNCHANGED <<styles, hathVars, gwisVars, renders, himVars, thir, reel, thann, trans>>

\* touchstart: every touchstart listener calls doPrefetch()
GilTouchStart ==
  /\ gil.events < MaxGilEvents
  /\ gil.connected /\ gil.touchListeners > 0
  /\ gil' = [doPrefetchTimes(gil, gil.touchListeners) EXCEPT !.events = gil.events + 1]
  /\ UNCHANGED <<styles, hathVars, gwisVars, renders, himVars, thir, reel, thann, trans>>

\* the hover delay of a pending timer has elapsed: the one this.hoverTimer refers to,
\* or one whose handle has been overwritten
HoverTimerFires(referenced) ==
  /\ \/ /\ referenced
        /\ gil.hoverTimer = "pending"
        /\ gil' = doPrefetch([gil EXCEPT !.hoverTimer = "fired"])
     \/ /\ ~referenced
        /\ gil.orphanTimers > 0
        /\ gil' = doPrefetch([gil EXCEPT !.orphanTimers = gil.orphanTimers - 1])
  /\ UNCHANGED <<styles, hathVars, gwisVars, renders, himVars, thir, reel, thann, trans>>

\* an idle callback runs
IdleCallbackFires ==
  /\ gil.idleCallbacks > 0
  /\ gil' = doPrefetch([gil EXCEPT !.idleCallbacks = gil.idleCallbacks - 1])
  /\ UNCHANGED <<styles, hathVars, gwisVars, renders, himVars, thir, reel, thann, trans>>

\* an observer that observes the element (this.observer, or one whose reference has
\* been overwritten) reports one entry: on isIntersecting, doPrefetch() and
\* this.observer?.disconnect(), which disconnects the observer the field refers
\* to, not the one that reports.  again: the reporting observer is one that has
\* called doPrefetch() before
ObserverReports(referenced, isIntersecting, again) ==
  /\ gil.events < MaxGilEvents
  /\ IF referenced THEN gil.observer = "observing" /\ ~again
      ELSE IF again THEN gil.orphanFired > 0
      ELSE gil.orphanObservers - gil.orphanFired > 0
  /\ isIntersecting => gil.connected
  /\ gil' = [(IF isIntersecting
                THEN [doPrefetch(gil) EXCEPT
                        !.observer = IF gil.observer = "observing" THEN "disconnected"
                                     ELSE gil.observer,
                        !.orphanFired = gil.orphanFired
                                          + (IF ~referenced /\ ~again THEN 1 ELSE 0),
                        !.repeatedRuns = gil.repeatedRuns + (IF again THEN 1 ELSE 0)]
                ELSE gil)
               EXCEPT !.events = gil.events + (IF isIntersecting THEN 1 ELSE 0)]
  /\ UNCHANGED <<styles, hathVars, gwisVars, renders, himVars, thir, reel, thann, trans>>

\* the attempt a suspended run awaits has settled: the run goes on
RunResumes(run) ==
  /\ BagIn(run, gil.runs)
  /\ gil' = PrefetchLoop([gil EXCEPT !.runs = gil.runs (-) SetToBag({run})],
                         run.rest, run.run)
  /\ UNCHANGED <<styles, hathVars, gwisVars, renders, himVars, thir, reel, thann, trans>>

InitGil ==
  \E icons \in BOOLEAN :
  gil = [href |-> NoAttr,            \* the href attribute
         prefetch |-> NoAttr,        \* the prefetch attribute
         on |-> "<null>",            \* the prefetch-on attribute
         connected |-> FALSE,
         detached |-> FALSE,         \* disconnectedCallback was the last lifecycle callback
         anchor |-> NoAttr,          \* href of the inner anchor (null: no anchor yet)
         prefetched |-> {},          \* this.prefetched
         hoverTimer |-> "null",      \* this.hoverTimer: null, or the handle of a timer
                                     \* that is pending / has fired / has been cleared
         orphanTimers |-> 0,         \* pending hover timers no handle refers to
         observer |-> "null",        \* this.observer: null, observing or disconnected
         orphanObservers |-> 0,      \* observing observers no field refers to
         orphanFired |-> 0,          \* those of them that have called doPrefetch()
         repeatedRuns |-> 0,         \* doPrefetch() calls of an observer after its first
         cleanupRef |-> "none",      \* this._cleanup: unset, or removes listeners that
                                     \* are registered / have been removed
         hoverListeners |-> 0,       \* onEnter/onLeave listener sets registered
         touchListeners |-> 0,       \* touchstart listeners registered
         idleCallbacks |-> 0,        \* idle callbacks requested and not yet run
         runs |-> EmptyBag,          \* doPrefetch runs suspended at an await
         fetches |-> EmptyBag,       \* attempts made (calls of a prefetch function)
         prefetchedEvents |-> 0,     \* prefetched events dispatched
         hasIcons |-> icons,         \* window.ElvishIcons is there
         caught |-> {},              \* keys whose attempt threw and was logged
         threw |-> FALSE,            \* an exception has left a lifecycle callback
         started |-> 0,              \* doPrefetch runs started
         lastEnded |-> [batch |-> {}, threw |-> FALSE],
                                     \* batch of the run that ended last, and whether
                                     \* that run caught a failure
         pointerIn |-> FALSE,        \* the pointer is over the element
         focusIn |-> FALSE,          \* the focus is inside the element
         calls |-> 0,                \* lifecycle callbacks so far (bounded)
         events |-> 0]               \* trigger events so far (bounded)

NextGil ==
  \/ GilConnect
  \/ GilDisconnect
  \/ \E v \in {NoAttr, T_href} : GilSetAttribute("href", v)
  \/ \E v \in {NoAttr, T_prefetch} : GilSetAttribute("prefetch", v)
  \/ \E v \in {"<null>", "hover", "visible", "idle", "immediate"} : GilSetPrefetchOn(v)
  \/ MouseEnter
  \/ MouseLeave
  \/ Focus
  \/ Blur
  \/ GilTouchStart
  \/ \E referenced \in BOOLEAN : HoverTimerFires(referenced)
  \/ IdleCallbackFires
  \/ \E referenced \in BOOLEAN, isIntersecting \in BOOLEAN, again \in BOOLEAN :
       ObserverReports(referenced, isIntersecting, again)
  \/ \E run \in BagToSet(gil.runs) : RunResumes(run)

-----------------------------------------------------------------------------
(* i-glan-tholl: the reel and its overflow class                                *)

T_auto == <<"a","u","t","o">>
T_2rem == <<"2","r","e","m">>

\* widths the reel's box can take, in units of one auto-sized item
ReelWidths == {2, 3}

\* get itemWidth(), get space(), get height(), get noBar()
ReelItemWidth(r) == IF Falsy(r.itemWidth) THEN T_auto ELSE r.itemWidth
ReelSpace(r) == IF Falsy(r.space) THEN T_var_s1 ELSE r.space
ReelHeight(r) == IF Falsy(r.height) THEN T_auto ELSE r.height

\* the fingerprint render() computes
ReelId(r) ==
  Sanitize(<<"G","l","a","n","T","h","o","l","l","-">> \o ReelItemWidth(r) \o <<"-">>
           \o ReelSpace(r) \o <<"-">> \o ReelHeight(r)
           \o (IF r.noBar THEN <<"-","n","o","B","a","r">> ELSE << >>))

\* the CSS text render() builds
ReelCss(r) ==
  LET sel == Selector(ReelId(r))
  IN  sel \o <<" { block-size: ">> \o ReelHeight(r) \o <<"; } ">>
          \o sel \o <<" > * { flex: 0 0 ">> \o ReelItemWidth(r) \o <<"; } ">>
          \o sel \o <<" > * + * { margin-inline-start: ">> \o ReelSpace(r) \o <<"; }">>

\* clientWidth and scrollWidth of the element as laid out: a detached element has no
\* box; an item is one unit wide under item-width auto and two under 2rem
ClientWidth(r) == IF r.connected THEN r.boxWidth ELSE 0
ScrollWidth(r) ==
  LET content == r.children * (IF ReelItemWidth(r) = T_2rem THEN 2 ELSE 1)
  IN  IF ~r.connected THEN 0
      ELSE IF content > r.boxWidth THEN content ELSE r.boxWidth

\* toggleOverflowClass()
toggleOverflowClass(r) == [r EXCEPT !.overflowing = ScrollWidth(r) > ClientWidth(r)]

\* observers that still observe when setupObservers() overwrites the fields that
\* refer to them
OrphansOfSetup(r) ==
  (IF r.hasRO /\ r.resizeObserver = "observing" THEN 1 ELSE 0)
    + (IF r.hasMO /\ r.mutationObserver = "observing" THEN 1 ELSE 0)

\* setupObservers(); a new ResizeObserver has its first observation to deliver
setupObserversNoCheck(r) ==
  [r EXCEPT !.resizeObserver = IF r.hasRO THEN "observing" ELSE r.resizeObserver,
            !.pendingResize = r.hasRO,
            !.mutationObserver = IF r.hasMO THEN "observing" ELSE r.mutationObserver,
            !.orphanObservers = r.orphanObservers + OrphansOfSetup(r)]
setupObservers(r) ==
  toggleOverflowClass(
    [r EXCEPT !.resizeObserver = IF r.hasRO THEN "observing" ELSE r.resizeObserver,
              !.pendingResize = r.hasRO,
              !.mutationObserver = IF r.hasMO THEN "observing" ELSE r.mutationObserver,
              !.orphanObservers = r.orphanObservers + OrphansOfSetup(r)])

\* disconnectedCallback() with the mutation observer left alone
disconnectResizeObserverOnly(r) ==
  [r EXCEPT !.resizeObserver = IF r.resizeObserver = "observing" THEN "disconnected"
                               ELSE r.resizeObserver,
            !.pendingResize = FALSE]

\* the body of disconnectedCallback(): disconnect() of the observers the fields refer
\* to, which drops what an observer has not delivered
disconnectObservers(r) ==
  [r EXCEPT !.resizeObserver = IF r.resizeObserver = "observing" THEN "disconnected"
                               ELSE r.resizeObserver,
            !.pendingResize = FALSE,
            !.mutationObserver = IF r.mutationObserver = "observing" THEN "disconnected"
                                 ELSE r.mutationObserver,
            !.pendingMutation = FALSE]

\* render(): the element's part
ReelRender(r) ==
  [r EXCEPT !.style = [itemWidth |-> ReelItemWidth(r), space |-> ReelSpace(r),
                       height |-> ReelHeight(r)],
            !.dataI = ReelId(r)]

\* render(): the document's part
ReelRealizeReplacing(st, r) == SetToBag({[id |-> ReelId(r), css |-> ReelCss(r)]})
ReelRealize(st, r) ==
  IF GetElementById(st, ReelId(r)) THEN st ELSE AppendStyle(st, ReelId(r), ReelCss(r))

\* connectedCallback()
ReelConnect ==
  /\ reel.calls < MaxReelCalls
  /\ ~reel.connected
  /\ LET r == [reel EXCEPT !.connected = TRUE, !.calls = reel.calls + 1]
     IN  /\ reel' = [setupObservers(ReelRender(r)) EXCEPT !.settingUp = TRUE]
         /\ styles' = ReelRealize(styles, r)
  /\ UNCHANGED <<hathVars, gwisVars, renders, himVars, thir, gil, thann, trans>>

\* disconnectedCallback(): disconnect() drops what an observer has not delivered
ReelDisconnect ==
  /\ reel.calls < MaxReelCalls
  /\ reel.connected
  /\ reel' = [disconnectObservers(reel) EXCEPT
       !.connected = FALSE, !.calls = reel.calls + 1, !.settingUp = FALSE]
  /\ UNCHANGED <<styles, hathVars, gwisVars, renders, himVars, thir, gil, thann, trans>>

\* setAttribute(name, v) or removeAttribute(name) (v null; no-bar: absent), then
\* attributeChangedCallback()
ReelSetAttribute(name, v) ==
  /\ reel.calls < MaxReelCalls
  /\ LET r == [CASE name = "item-width" -> [reel EXCEPT !.itemWidth = v]
                 [] name = "space" -> [reel EXCEPT !.space = v]
                 [] name = "height" -> [reel EXCEPT !.height = v]
                 [] OTHER -> [reel EXCEPT !.noBar = (v # NoAttr)]
                EXCEPT !.calls = reel.calls + 1, !.settingUp = FALSE]
     IN  /\ v = NoAttr => r # [reel EXCEPT !.calls = reel.calls + 1, !.settingUp = FALSE]
         /\ reel' = ReelRender(r)
         /\ styles' = ReelRealize(styles, r)
  /\ UNCHANGED <<hathVars, gwisVars, renders, himVars, thir, gil, thann, trans>>

\* the reel's box takes another width
ReelResize(w) ==
  /\ reel.changes < MaxReelChanges
  /\ w # reel.boxWidth
  /\ reel' = [reel EXCEPT !.boxWidth = w, !.changes = reel.changes + 1, !.settingUp = FALSE,
                          !.pendingResize = reel.pendingResize
                                              \/ (reel.connected /\ reel.resizeObserver = "observing")]
  /\ UNCHANGED <<styles, hathVars, gwisVars, renders, himVars, thir, gil, thann, trans>>

\* a direct child is added (d = 1) or removed (d = -1)
ReelChildren(d) ==
  /\ reel.changes < MaxReelChanges
  /\ reel.children + d \in 0..MaxChildren
  /\ reel' = [reel EXCEPT !.children = reel.children + d, !.changes = reel.changes + 1,
                          !.settingUp = FALSE,
                          !.pendingMutation = reel.pendingMutation
                                                \/ reel.mutationObserver = "observing"]
  /\ UNCHANGED <<styles, hathVars, gwisVars, renders, himVars, thir, gil, thann, trans>>

\* the ResizeObserver delivers its observation: toggleOverflowClass()
ResizeCallback ==
  /\ reel.pendingResize
  /\ reel' = [toggleOverflowClass(reel) EXCEPT !.pendingResize = FALSE, !.settingUp = FALSE]
  /\ UNCHANGED <<styles, hathVars, gwisVars, renders, himVars, thir, gil, thann, trans>>

\* the MutationObserver delivers its records: toggleOverflowClass()
MutationCallback ==
  /\ reel.pendingMutation
  /\ reel' = [toggleOverflowClass(reel) EXCEPT !.pendingMutation = FALSE, !.settingUp = FALSE]
  /\ UNCHANGED <<styles, hathVars, gwisVars, renders, himVars, thir, gil, thann, trans>>

InitReel ==
  \E ro \in BOOLEAN, mo \in BOOLEAN, w \in ReelWidths, n \in 0..MaxChildren :
    reel = [itemWidth |-> NoAttr,          \* the item-width attribute
            space |-> NoAttr,              \* the space attribute
            height |-> NoAttr,             \* the height attribute
            noBar |-> FALSE,               \* the no-bar attribute is present
            connected |-> FALSE,
            dataI |-> NoAttr,              \* dataset.i
            style |-> [itemWidth |-> NoAttr, space |-> NoAttr, height |-> NoAttr],
            overflowing |-> FALSE,         \* classList.contains('overflowing')
            hasRO |-> ro,                  \* 'ResizeObserver' in window
            hasMO |-> mo,                  \* 'MutationObserver' in window
            resizeObserver |-> "null",     \* this.resizeObserver: null, observing
            mutationObserver |-> "null",   \* or disconnected; likewise
            pendingResize |-> FALSE,       \* the ResizeObserver has an observation to deliver
            pendingMutation |-> FALSE,     \* the MutationObserver has records to deliver
            orphanObservers |-> 0,         \* observing observers no field refers to
            boxWidth |-> w,                \* width of the box the reel gets when attached
            children |-> n,                \* number of direct children
            calls |-> 0,                   \* lifecycle callbacks so far (bounded)
            changes |-> 0,                 \* resizes and child changes so far (bounded)
            settingUp |-> FALSE]           \* connectedCallback has returned and nothing
                                           \* has happened to the reel since

NextReel ==
  \/ ReelConnect
  \/ ReelDisconnect
  \/ \E v \in {NoAttr, T_2rem} : ReelSetAttribute("item-width", v)
  \/ \E v \in {NoAttr, T_15rem} : ReelSetAttribute("space", v)
  \/ \E v \in {NoAttr, T_2rem} : ReelSetAttribute("height", v)
  \/ \E v \in {NoAttr, << >>} : ReelSetAttribute("no-bar", v)
  \/ \E w \in ReelWidths : ReelResize(w)
  \/ \E d \in {-1, 1} : ReelChildren(d)
  \/ ResizeCallback
  \/ MutationCallback

InitStyle ==
  /\ styles = EmptyBag
  /\ hathAttr = [e \in HathEls |-> [space |-> NoAttr, recursive |-> FALSE, split |-> NoAttr]]
  /\ hathConnected = [e \in HathEls |-> FALSE]
  /\ hathDataI = [e \in HathEls |-> NoAttr]
  /\ hathStyle = [e \in HathEls |-> NoAttr]
  /\ gwisAttr = [threshold |-> NoAttr, space |-> NoAttr, limit |-> NoAttr]
  /\ gwisConnected = FALSE
  /\ gwisDataI = NoAttr
  /\ gwisStyle = [threshold |-> NoAttr, space |-> NoAttr]
  /\ thann = [space |-> NoAttr,      \* the space attribute
              label |-> NoAttr,      \* the label attribute
              connected |-> FALSE,
              dataI |-> NoAttr,      \* dataset.i
              style |-> NoAttr,      \* inline --thann-space
              role |-> NoAttr,       \* the role attribute
              ariaLabel |-> NoAttr]  \* the aria-label attribute
  /\ renders = 0

NextStyle ==
  \/ \E e \in HathEls : HathConnect(e)
  \/ \E e \in HathEls : HathDisconnect(e)
  \/ \E e \in HathEls : \E v \in {T_1p5rem, T_15rem} : HathSetAttribute(e, "space", v)
  \/ \E e \in HathEls : HathSetAttribute(e, "recursive", TRUE)
  \/ \E e \in HathEls : \E v \in {<<"2">>, <<"0">>, <<"x">>} : HathSetAttribute(e, "split", v)
  \/ \E e \in HathEls : \E n \in {"space", "recursive", "split"} : HathRemoveAttribute(e, n)
  \/ GwisConnect
  \/ GwisDisconnect
  \/ \E v \in {T_30rem} : GwisSetAttribute("threshold", v)
  \/ \E v \in {T_15rem} : GwisSetAttribute("space", v)
  \/ \E v \in {<<"3">>, <<"x">>} : GwisSetAttribute("limit", v)
  \/ \E n \in {"threshold", "space", "limit"} : GwisRemoveAttribute(n)
  \/ ThannConnect
  \/ \E v \in {NoAttr, T_15rem} : ThannSetAttribute("space", v)
  \/ \E v \in {NoAttr, <<"x">>} : ThannSetAttribute("label", v)

-----------------------------------------------------------------------------
(* transitions.js: transition() with duration / easing overrides               *)

\* `${options.duration}ms`
Ms(n) == IntToText(n) \o <<"m","s">>

T_linear == <<"l","i","n","e","a","r">>

\* original || ''
OrEmpty(v) == IF v = << >> THEN << >> ELSE v

\* transition(updateCallback, {duration, easing}) with a callback that returns
\* normally; duration 0 and easing '' stand for an option that is not given (both
\* are falsy).  Without startViewTransition the callback runs and nothing else
\* happens; with it the call reads the two inline properties, writes the
\* overrides and leaves a reaction on viewTransition.finished
Transition(duration, easing) ==
  /\ trans.calls < MaxTransitions
  /\ trans' =
       IF ~trans.supported
         THEN [trans EXCEPT !.calls = trans.calls + 1]
         ELSE [trans EXCEPT
                 !.calls = trans.calls + 1,
                 !.duration = IF duration # 0 THEN Ms(duration) ELSE trans.duration,
                 !.ease = IF easing # << >> THEN easing ELSE trans.ease,
                 !.pending = Append(trans.pending,
                                    [duration |-> duration # 0,
                                     easing |-> easing # << >>,
                                     originalDuration |-> trans.duration,
                                     originalEasing |-> trans.ease])]
  /\ UNCHANGED <<styles, hathVars, gwisVars, renders, himVars, thir, gil, reel, thann>>

\* viewTransition.finished is fulfilled and the reaction restores the values the
\* call had read.  startViewTransition skips the transition that is active, so
\* the transitions finish in the order in which they were started
TransitionFinished ==
  /\ trans.pending # << >>
  /\ LET t == Head(trans.pending)
     IN  trans' = [trans EXCEPT
                     !.pending = Tail(trans.pending),
                     !.duration = IF t.duration THEN OrEmpty(t.originalDuration)
                                  ELSE trans.duration,
                     !.ease = IF t.easing THEN OrEmpty(t.originalEasing) ELSE trans.ease]
  /\ UNCHANGED <<styles, hathVars, gwisVars, renders, himVars, thir, gil, reel, thann>>

InitTrans ==
  \E sup \in BOOLEAN, d \in {<< >>, Ms(200)} :
    trans = [supported |-> sup,     \* 'startViewTransition' in document
             duration |-> d,        \* root.style.getPropertyValue('--transition-duration')
             ease |-> << >>,        \* root.style.getPropertyValue('--transition-ease')
             before |-> [duration |-> d, ease |-> << >>],
                                    \* the two values before the first call
             pending |-> << >>,     \* the calls whose transition has not finished, in
                                    \* the order of the calls: what each has overridden
                                    \* and the values it read
             calls |-> 0]           \* transition() calls so far (bounded)

NextTrans ==
  \/ \E duration \in {0, 300, 500}, easing \in {<< >>, T_linear} :
       Transition(duration, easing)
  \/ TransitionFinished

Init == InitStyle /\ InitHim /\ InitThir /\ InitGil /\ InitReel /\ InitTrans

Next == NextStyle \/ NextHim \/ NextThir \/ NextGil \/ NextReel \/ NextTrans

Spec == Init /\ [][Next]_vars

\* Each specification below runs one component from its initial states and keeps
\* every other component in one of its initial states.

\* the stack and switcher widgets and the style list they share
InitStyleAlone ==
  /\ Init
  /\ trans.supported = TRUE /\ trans.duration = << >>
  /\ gil.hasIcons = FALSE
  /\ hasIO = TRUE /\ ioDrops = TRUE /\ sentinelVisible = TRUE
  /\ thir.delegated = FALSE /\ thir.hover = NoAttr
  /\ reel.hasRO = TRUE /\ reel.hasMO = TRUE /\ reel.boxWidth = 2 /\ reel.children = 0

SpecStyle == InitStyleAlone /\ [][NextStyle]_vars

\* the sticky widget, its sentinel and the engine's intersection reports
InitHimAlone ==
  /\ Init
  /\ trans.supported = TRUE /\ trans.duration = << >>
  /\ gil.hasIcons = FALSE
  /\ thir.delegated = FALSE /\ thir.hover = NoAttr
  /\ reel.hasRO = TRUE /\ reel.hasMO = TRUE /\ reel.boxWidth = 2 /\ reel.children = 0

SpecHim == InitHimAlone /\ [][NextHim]_vars

\* the i-thir element under both long-press implementations
InitThirAlone ==
  /\ Init
  /\ trans.supported = TRUE /\ trans.duration = << >>
  /\ gil.hasIcons = FALSE
  /\ hasIO = TRUE /\ ioDrops = TRUE /\ sentinelVisible = TRUE
  /\ reel.hasRO = TRUE /\ reel.hasMO = TRUE /\ reel.boxWidth = 2 /\ reel.children = 0

SpecThir == InitThirAlone /\ [][NextThir]_vars

SpecThirScript == InitThirAlone /\ [][NextThirScript]_vars

\* timers whose delay has elapsed run their callback, and a finger that is down is
\* eventually lifted or its touch cancelled
FairThir ==
  /\ WF_vars(TouchEnd \/ TouchCancel)
  /\ \A impl \in {"thir", "delegated"} :
       WF_vars(PressTimerFires(impl)) /\ WF_vars(GraceTimerFires(impl))

SpecThirLive == InitThirAlone /\ [][NextThir]_vars /\ FairThir

\* the i-gil link widget
InitGilAlone ==
  /\ Init
  /\ trans.supported = TRUE /\ trans.duration = << >>
  /\ ioDrops = TRUE /\ sentinelVisible = TRUE
  /\ thir.delegated = FALSE /\ thir.hover = NoAttr
  /\ reel.hasRO = TRUE /\ reel.hasMO = TRUE /\ reel.boxWidth = 2 /\ reel.children = 0

SpecGil == InitGilAlone /\ [][NextGil]_vars

\* the reel
InitReelAlone ==
  /\ Init
  /\ trans.supported = TRUE /\ trans.duration = << >>
  /\ gil.hasIcons = FALSE
  /\ hasIO = TRUE /\ ioDrops = TRUE /\ sentinelVisible = TRUE
  /\ thir.delegated = FALSE /\ thir.hover = NoAttr

SpecReel == InitReelAlone /\ [][NextReel]_vars

\* the view-transition helper
InitTransAlone ==
  /\ Init
  /\ gil.hasIcons = FALSE
  /\ hasIO = TRUE /\ ioDrops = TRUE /\ sentinelVisible = TRUE
  /\ thir.delegated = FALSE /\ thir.hover = NoAttr
  /\ reel.hasRO = TRUE /\ reel.hasMO = TRUE /\ reel.boxWidth = 2 /\ reel.children = 0

SpecTrans == InitTransAlone /\ [][NextTrans]_vars

-----------------------------------------------------------------------------
(* Properties of the style cache *)

\* C1: after any sequence of connect and attribute-change callbacks the document
\* holds at most one style element per fingerprint id, and every rendered element
\* (alone or sharing its fingerprint with a peer) is served by exactly one style
\* element carrying its dataset.i.
C1_OneStylePerFingerprint ==
  /\ \A id \in StyleIds(styles) : StyleCount(styles, id) = 1
  /\ \A e \in HathEls : hathDataI[e] # NoAttr => StyleCount(styles, hathDataI[e]) = 1
  /\ gwisDataI # NoAttr => StyleCount(styles, gwisDataI) = 1

\* two attached stack widgets with identical resolved configuration have rendered
\* (at least three renders in all) and share one stylesheet
C1_Witness ==
  /\ hathConnected["hathA"] /\ hathConnected["hathB"]
  /\ hathAttr["hathA"] = hathAttr["hathB"]
  /\ hathAttr["hathA"].space = T_15rem
  /\ hathDataI["hathA"] = hathDataI["hathB"]
  /\ StyleCount(styles, hathDataI["hathA"]) = 1
  /\ renders >= 3

\* the CSS-affecting options of a stack widget as resolved by its getters
HathConfig(a) ==
  <<HathSpace(a), HathRecursive(a), IF HathHasSplit(a) THEN HathSplitAfter(a).n ELSE 0>>

\* C2: two stack widgets whose resolved configurations differ in at least one
\* CSS-affecting option carry different fingerprints (dataset.i, style id).
C2_DistinctConfigDistinctFingerprint ==
  \A e1, e2 \in HathEls :
    (/\ hathDataI[e1] # NoAttr
     /\ hathDataI[e2] # NoAttr
     /\ HathConfig(hathAttr[e1]) # HathConfig(hathAttr[e2]))
      => hathDataI[e1] # hathDataI[e2]

-----------------------------------------------------------------------------
(* Properties of the sticky widget *)

\* C3: running the attribute-change handling (render and the frame callback it
\* schedules) again with no actual attribute change inserts no stylesheet and
\* changes no observable state: as long as no attribute and no attachment has
\* changed since the widget settled, its fingerprint tag, inline custom property,
\* the style list and the sentinel and observer it owns stay what they are.
C3_RerenderChangesNothing ==
  [][(~himChanged /\ ~himChanged')
       => /\ styles' = styles
          /\ himDataI' = himDataI
          /\ himStyle' = himStyle
          /\ himSentinel'.sentinelEl = himSentinel.sentinelEl
          /\ himSentinel'.observer = himSentinel.observer]_vars

\* C9: no two consecutive stuck-change notifications carry the same boolean, also
\* when reports arrive after the sentinel and observer have been re-created.
\* Stated for the engine most favourable to the claim, the one that discards the
\* undelivered entries of a disconnected observer.
C9_NoConsecutiveDuplicates ==
  ioDrops => \A i \in 1..(Len(stuckLog) - 1) : stuckLog[i] # stuckLog[i + 1]

\* C17: a numeric option whose attribute is absent or does not parse as an integer
\* resolves to its default (switcher limit 4, grid columns 12, hover delay 65), and
\* the default is what the switcher's fingerprint and generated CSS contain
C17_UnparsableNumberIsDefault ==
  /\ (gwisDataI # NoAttr /\ ParseInt(gwisAttr.limit).nan) =>
       LET a == [gwisAttr EXCEPT !.limit = IntToText(GwisDefaultLimit)]
       IN  /\ gwisDataI = GwisId(a)
           /\ \E s \in BagToSet(styles) : s.id = gwisDataI /\ s.css = GwisCss(a)
  /\ \A v \in {NoAttr, << >>, <<"x">>, <<" ">>, <<"-">>, <<"a","1">>, <<"3">>} :
       ParseInt(v).nan => MiriantColumns(v) = 12 /\ GilDelay(v) = 65

\* the switcher has rendered with a limit attribute that is not a number
C17_Witness ==
  /\ gwisAttr.limit = <<"x">>
  /\ gwisDataI # NoAttr
  /\ \E s \in BagToSet(styles) : s.id = gwisDataI

\* C11: every entry handed to the observer callback dispatches a stuck-change whose
\* boolean is the negation of the entry's isIntersecting, and data-stuck is set to the
\* same boolean; hence data-stuck always equals the boolean of the most recent
\* stuck-change (and is unset while no event has been dispatched).
C11_StuckMatchesLastEvent ==
  /\ [](IF stuckLog = << >> THEN himStuck = "none"
        ELSE himStuck = BoolText(stuckLog[Len(stuckLog)]))
  /\ [][stuckLog' # stuckLog =>
          LET ob == Head(himSentinel.queue).obs
              entries == SelectSeq(himSentinel.queue, LAMBDA q : q.obs = ob)
          IN  /\ Len(stuckLog') = Len(stuckLog) + Len(entries)
              /\ \A i \in 1..Len(entries) :
                   stuckLog'[Len(stuckLog) + i] = ~entries[i].isIntersecting
              /\ himStuck' = BoolText(~entries[Len(entries)].isIntersecting)]_vars

\* the sentinel has been reported out of view and then in view: two events, and
\* data-stuck carries the second one's boolean
C11_Witness ==
  /\ Len(stuckLog) >= 2
  /\ stuckLog[1] = TRUE /\ stuckLog[Len(stuckLog)] = FALSE
  /\ himStuck = "false"

\* C19: once disconnectedCallback has returned, and until the element is attached
\* again, the sticky widget refers to no sentinel node and to no observer, and no
\* stuck-change event is dispatched, whatever frame callbacks run and whatever
\* attributes change in the meantime.
C19_NothingAfterDetach ==
  /\ [](himDetached => (himSentinel.sentinelEl = 0 /\ himSentinel.observer = 0))
  /\ [][(himDetached /\ himDetached') => stuckLog' = stuckLog]_vars

-----------------------------------------------------------------------------
(* Properties of the link widget *)

\* C4: whatever the interleaving of trigger firings and of suspended prefetch runs,
\* each key is attempted at most once: no two attempts of the widget share a key.
C4_AtMostOneAttemptPerKey ==
  \A f1, f2 \in BagToSet(gil.fetches) :
    f1.key = f2.key => (f1 = f2 /\ CopiesIn(f1, gil.fetches) = 1)

\* a run is suspended at the only attempt made so far, and a second run, started
\* meanwhile, has skipped that key and ended
C4_Witness ==
  /\ gil.runs # EmptyBag
  /\ gil.prefetchedEvents >= 1
  /\ BagCardinality(gil.fetches) = 1
  /\ gil.events >= 2

\* C5: under the hover policy, once the pointer and the focus have both left the
\* attached element, no hover timer is pending (so no prefetch attempt follows).
C5_LeaveCancelsTimer ==
  (gil.connected /\ gil.on \in {"<null>", "hover"} /\ ~gil.pointerIn /\ ~gil.focusIn)
    => (gil.hoverTimer # "pending" /\ gil.orphanTimers = 0)

\* C13: a failed attempt is caught and logged and its key is not left marked as
\* attempted: no key whose failure has been caught is in this.prefetched (so the next
\* firing of the trigger attempts it again).
C13_FailureNotMarked == gil.caught \cap gil.prefetched = {}

\* C14: a failure does not end a run: every run started is either suspended at an
\* await or has dispatched the prefetched event, and when the run that ended last
\* caught a failure, every resource of its batch has been attempted all the same.
C14_FailureDoesNotAbortBatch ==
  /\ gil.started = BagCardinality(gil.runs) + gil.prefetchedEvents
  /\ gil.lastEnded.threw
       => gil.lastEnded.batch \subseteq {f.key : f \in BagToSet(gil.fetches)}

\* a run whose icons attempt threw has gone on to attempt the css resources that
\* follow it and has dispatched the prefetched event
C14_Witness ==
  /\ gil.lastEnded.threw /\ gil.caught # {}
  /\ gil.prefetchedEvents >= 1
  /\ \E f \in BagToSet(gil.fetches) :
       f.type = <<"c","s","s">> /\ f.key \in gil.lastEnded.batch

\* C16: no lifecycle callback of the link widget lets an exception escape, whatever
\* the attribute values and whichever optional platform primitives are missing.
C16_NoExceptionEscapes == ~gil.threw

\* C20: once disconnectedCallback has returned, and as long as no other lifecycle
\* callback has run since, no prefetch run starts: no timer, idle callback, observer
\* or listener registered before calls doPrefetch().
C20_NoRunAfterDetach ==
  [][(gil.detached /\ gil'.detached) => gil'.started = gil.started]_vars

-----------------------------------------------------------------------------
(* Properties of the long press *)

\* C6: a touch-start on an element that carries the touch attribute cancels the
\* deactivation scheduled by an earlier release: once the touch-start has been
\* handled, no grace timer is pending in either implementation.
C6_SecondStartCancelsGrace ==
  [][(thir'.starts > thir.starts /\ thir'.stable)
       => (thir'.graceTimers = 0 /\ thir'.delegatedGraceTimers = 0)]_vars

C8_ActivationThenDeactivation ==
  (thir.starts = 1 /\ thir.stable /\ ~thir.cancelled /\ ~thir.delegated)
    => <<thir.activations, thir.deactivations>> \in {<<0, 0>>, <<1, 0>>, <<1, 1>>}

\* C18: the activation event carries the effective touch-effect name (the touch
\* attribute when it is a non-empty value other than "true", otherwise the hover
\* attribute, otherwise "default"), and the per-instance and the delegated
\* implementation compute the same name from the same attributes.
C18_ActivationCarriesEffectiveName ==
  /\ [](GetTouchEffect(thir) = getTouchEffect(thir))
  /\ [][thir'.activations > thir.activations =>
          thir'.detail = IF thir'.touch \notin {NoAttr, << >>, <<"t","r","u","e">>}
                           THEN thir'.touch
                           ELSE IF thir'.hover \notin {NoAttr, << >>}
                                  THEN thir'.hover
                                  ELSE <<"d","e","f","a","u","l","t">>]_vars

\* an activation was dispatched with the hover effect's name, by an element whose
\* touch attribute is "true"
C18_Witness ==
  /\ thir.activations > 0
  /\ thir.touch = <<"t","r","u","e">>
  /\ thir.hover = T_lift
  /\ thir.detail = T_lift

\* C21: after the element's teardown (disconnectedCallback, or the callback of the
\* touch attribute's removal, with no initialisation since: this._onTouchStart
\* refers to a removed listener) none of the listeners it registered remains, and
\* neither its press timer nor a grace timer of its release runs.
C21_NothingAfterTeardown ==
  /\ [](thir.onTouchStart = "removed" => thir.listeners = 0)
  /\ [][(thir.onTouchStart = "removed" /\ thir'.onTouchStart = "removed") =>
          /\ thir'.graceTimers >= thir.graceTimers
          /\ ~(thir.touchTimer = "pending" /\ thir'.touchTimer = "fired")]_vars

-----------------------------------------------------------------------------
(* Properties of the reel *)

\* C10: immediately after the reel's setup (connectedCallback has returned, no
\* observer callback has run, nothing has changed since), the overflowing class is
\* present exactly when scrollWidth exceeds clientWidth.
C10_InitialClassification ==
  reel.settingUp => (reel.overflowing <=> ScrollWidth(reel) > ClientWidth(reel))

\* a reel whose content is wider than its box has just been set up and carries the
\* class, with the first resize observation still undelivered
C10_Witness ==
  /\ reel.settingUp /\ reel.pendingResize
  /\ ScrollWidth(reel) > ClientWidth(reel)
  /\ reel.overflowing

\* C12: no operation removes a generated stylesheet: every style element of the
\* document is still there after every step, detaching the only widget that uses its
\* fingerprint included.
C12_StylesOnlyGrow ==
  [][\A e \in BagToSet(styles) : BagIn(e, styles') /\ CopiesIn(e, styles') >= CopiesIn(e, styles)]_vars

\* the reel has been rendered and detached, and the stylesheet of its fingerprint is
\* still in the document
C12_Witness ==
  /\ ~reel.connected /\ reel.calls >= 2
  /\ reel.dataI # NoAttr
  /\ StyleCount(styles, reel.dataI) = 1

\* C15: in an environment that lacks the size-observation primitive (stated for the
\* one that lacks the mutation observer as well) the reel is never classified as
\* overflowing, whatever its content.  The sticky widget's half of the claim (never
\* data-stuck = "true" without the proximity observer) is not what fails.
C15_NoObserverNeverOverflowing ==
  (~reel.hasRO /\ ~reel.hasMO) => ~reel.overflowing

\* C22: across attach/detach cycles the reel has at most one observing size
\* observer and one observing mutation observer (the ones its fields refer to);
\* while detached it has none and nothing is left to deliver, and no step taken
\* while it is detached changes the overflowing class.
C22_AtMostOneObserverNoneDetached ==
  /\ [](reel.orphanObservers = 0)
  /\ [](~reel.connected =>
          /\ reel.resizeObserver # "observing" /\ reel.mutationObserver # "observing"
          /\ ~reel.pendingResize /\ ~reel.pendingMutation)
  /\ [][(~reel.connected /\ ~reel'.connected) => reel'.overflowing = reel.overflowing]_vars

\* a reel that was attached with both observers, was classified as overflowing and
\* has been detached after its content or box changed
C22_Witness ==
  /\ ~reel.connected
  /\ reel.resizeObserver = "disconnected" /\ reel.mutationObserver = "disconnected"
  /\ reel.overflowing
  /\ reel.changes > 0

\* C23: in each long-press implementation at most one timer of the element is
\* pending at any time: never a press timer together with a grace timer, never two
\* grace timers (the element's own listeners registered at most once).
C23_AtMostOneLiveTimer ==
  thir.listeners <= 1 =>
    /\ thir.graceTimers + (IF thir.touchTimer = "pending" THEN 1 ELSE 0) <= 1
    /\ thir.delegatedGraceTimers + (IF thir.touchTimers = "pending" THEN 1 ELSE 0) <= 1

\* C24: activation and deactivation events alternate, starting with an activation
\* (the element's own listeners alone, registered at most once): there are never
\* more deactivations than activations, so a touch-end or touch-cancel of an
\* element that is not active dispatches nothing, and never two activations without
\* a deactivation between them.
C24_EventsAlternate ==
  (~thir.delegated /\ thir.listeners <= 1) =>
    /\ thir.deactivations <= thir.activations
    /\ thir.activations <= thir.deactivations + 1

\* C25: however often touch support has been initialised for the element (its own
\* listeners registered once or several times, with or without the document-level
\* listeners), one long-press gesture (a single touch-start on the element carrying
\* the touch attribute, not cancelled, no lifecycle callback since) dispatches one
\* activation and then one deactivation, and nothing more.
C25_OneGestureOnePairOfEvents ==
  (thir.starts = 1 /\ thir.stable /\ ~thir.cancelled)
    => <<thir.activations, thir.deactivations>> \in {<<0, 0>>, <<1, 0>>, <<1, 1>>}

\* C26: after any sequence of lifecycle callbacks of the link widget at most one
\* set of trigger registrations is live, and it is the set of the policy that the
\* prefetch-on attribute selects now: what an earlier setup registered (listeners,
\* hover timer, observer, idle callback) has been disabled.
C26_OneLiveRegistrationSet ==
  LET policy == IF gil.on \in {"<null>", ""} THEN "hover" ELSE gil.on
  IN  /\ gil.hoverListeners <= 1 /\ gil.touchListeners <= 1
      /\ gil.orphanObservers = 0 /\ gil.idleCallbacks <= 1
      /\ (gil.hoverListeners > 0 \/ gil.touchListeners > 0 \/ gil.hoverTimer = "pending")
            => policy = "hover"
      /\ gil.observer = "observing" => policy = "visible"
      /\ gil.idleCallbacks > 0 => policy = "idle"

\* C27: for an attached reel in a window that has both observers, once no observer
\* callback is pending the overflowing class is present exactly when the content
\* is wider than the box, whatever changed before (box width, children, attributes).
C27_ClassFollowsOverflow ==
  (reel.connected /\ reel.hasRO /\ reel.hasMO /\ ~reel.pendingResize /\ ~reel.pendingMutation)
    => (reel.overflowing <=> ScrollWidth(reel) > ClientWidth(reel))

\* C28: every attached widget that carries a fingerprint is served by a style
\* element with that id whose CSS text is the text its own current resolved
\* configuration generates: no widget is styled by CSS built from another
\* configuration.
C28_StyleIsOwnConfiguration ==
  /\ \A e \in HathEls :
       (hathConnected[e] /\ hathDataI[e] # NoAttr) =>
         \A s \in BagToSet(styles) : s.id = hathDataI[e] => s.css = HathCss(hathAttr[e])
  /\ (gwisConnected /\ gwisDataI # NoAttr) =>
       \A s \in BagToSet(styles) : s.id = gwisDataI => s.css = GwisCss(gwisAttr)

\* C29: after every attribute-change callback the fingerprint tag and the inline
\* custom property of a widget are the ones its current attributes give; with an
\* attribute removed nothing of the earlier configuration stays on the element
\* (stack widget: the default space; icon widget: no tag and no property without a
\* space value).
C29_DerivedFromCurrentAttributes ==
  /\ \A e \in HathEls :
       hathDataI[e] # NoAttr =>
         (hathDataI[e] = HathId(hathAttr[e]) /\ hathStyle[e] = HathSpace(hathAttr[e]))
  /\ Falsy(thann.space) => (thann.dataI = NoAttr /\ thann.style = NoAttr)
  /\ ~Falsy(thann.space) =>
       /\ thann.dataI = Sanitize(<<"T","h","a","n","n","-">> \o thann.space)
       /\ thann.style = thann.space

\* C30: style-cache writes of different instances commute: rendering the widgets'
\* current configurations into a document that holds none of their stylesheets
\* leaves the same style elements (ids and CSS text) in either order.
C30_StyleWritesCommute ==
  LET a == hathAttr["hathA"]
      b == hathAttr["hathB"]
  IN  /\ HathRealize(HathRealize(EmptyBag, a), b) = HathRealize(HathRealize(EmptyBag, b), a)
      /\ GwisRealize(HathRealize(EmptyBag, a), gwisAttr)
            = HathRealize(GwisRealize(EmptyBag, gwisAttr), a)

\* C31: in every reachable state the sticky widget has at most one sentinel node
\* in the document and at most one observing observer, and they are the ones its
\* fields refer to, however often enabling was re-entered.
C31_AtMostOneSentinelAndObserver ==
  /\ Cardinality(himSentinel.dom) <= 1
  /\ Cardinality(himSentinel.live) <= 1
  /\ \A n \in himSentinel.dom : n.node = himSentinel.sentinelEl
  /\ \A o \in himSentinel.live : o.id = himSentinel.observer

\* enabling has been re-entered: the widget observes a second sentinel while an
\* entry of the first observer is still queued
C31_Witness ==
  /\ Cardinality(himSentinel.dom) = 1 /\ Cardinality(himSentinel.live) = 1
  /\ himSentinel.sentinelEl = 2
  /\ himSentinel.queue # << >>

\* C32: while the sentinel attribute is absent the widget has no sentinel node
\* and no observing observer and both references are null: the step that
\* removes the attribute releases them, and a frame callback that was
\* scheduled before the removal and runs after it creates nothing.
C32_NoSentinelWhileFlagAbsent ==
  ~himAttr.sentinel =>
    /\ himSentinel.sentinelEl = 0 /\ himSentinel.observer = 0
    /\ himSentinel.dom = {} /\ himSentinel.live = {}

\* the frame callbacks scheduled while the attribute was set have run after its
\* removal, on an attached element in a browser with IntersectionObserver
C32_Witness ==
  /\ ~himAttr.sentinel /\ himConnected /\ hasIO
  /\ himCalls >= 2 /\ himFrames = 0 /\ ~himChanged
  /\ himSentinel.sentinelEl = 0 /\ himSentinel.observer = 0

\* C33: an observer starts observing only in a step that is not a render (a
\* frame callback), and in the step in which it starts its target, the
\* sentinel node, is in the document next to the element: after it when the
\* widget sticks to the bottom, before it otherwise.
C33_ObservedSentinelIsAttached ==
  [][\A o \in himSentinel'.live :
       (o \notin himSentinel.live /\ o.prev = "none") =>
         /\ himCalls' = himCalls
         /\ \E n \in himSentinel'.dom :
              /\ n.node = o.target
              /\ n.where = IF HimTo(himAttr') = <<"b","o","t","t","o","m">>
                             THEN "afterend" ELSE "beforebegin"]_vars

\* C38: a step that turns stuck detection off (the sentinel attribute goes, or
\* the widget is detached) leaves data-stuck as it was and dispatches no
\* stuck-change event.
C38_TeardownKeepsStuck ==
  [][((himAttr.sentinel /\ ~himAttr'.sentinel) \/ (himConnected /\ ~himConnected'))
       => (himStuck' = himStuck /\ stuckLog' = stuckLog)]_vars

\* an element last classified as stuck, with detection turned off and released
C38_Witness ==
  /\ himStuck = "true" /\ ~himAttr.sentinel
  /\ himSentinel.observer = 0 /\ himSentinel.sentinelEl = 0
  /\ himSentinel.queue = << >>

\* C34: no step of the link widget takes a key out of this.prefetched: the set
\* after a step contains the set before it.
C34_PrefetchedOnlyGrows == [][gil.prefetched \subseteq gil'.prefetched]_vars

\* a widget that has requested a key and has since been detached
C34_Witness ==
  /\ gil.prefetched # {} /\ gil.detached

\* C35: an observer set up by setupVisiblePrefetch() starts at most one prefetch
\* run: no observer calls doPrefetch() after its first intersecting report.
C35_OneRunPerProximitySetup == gil.repeatedRuns = 0

\* C36: an element that is active (its _touchActive flag is set or it is in
\* activeElements) is eventually idle again: the class touch-active is off and
\* both flags are clear, also when the touch attribute is removed or the
\* element detached while it is active.
C36_ActiveEventuallyIdle ==
  (thir.touchActive \/ thir.activeElements)
    ~> (~thir.classTouchActive /\ ~thir.touchActive /\ ~thir.activeElements)

\* C37: the element carries the class touch-active exactly when the active flag
\* of the per-instance implementation (_touchActive) is set, and, where touch.js
\* is loaded, exactly when the element is in activeElements.
C37_ClassMatchesActiveFlag ==
  /\ thir.classTouchActive <=> thir.touchActive
  /\ thir.delegated => (thir.classTouchActive <=> thir.activeElements)

\* C39: when every transition() call made so far has finished, the root
\* element's --transition-duration and --transition-ease have the values they
\* had before the first call.
C39_OverridesRestored ==
  trans.pending = << >> =>
    /\ trans.duration = trans.before.duration
    /\ trans.ease = trans.before.ease

====
